---- MODULE Spec2Model ----
(***************************************************************************)
(* git-ray: the POST /api/analyze handler (route.ts), the GitHub data      *)
(* client fetchGitHubData (lib/github.ts) and the critique client          *)
(* analyzeWithGroq (lib/groq.ts), as one state machine per request.        *)
(*                                                                         *)
(* Strings the code inspects character by character (the username, tree    *)
(* paths) are sequences of one-character strings.  An optional value       *)
(* (T | null, T | undefined) is a sequence of length 0 or 1.  A JSON       *)
(* number is kept in tenths, so 13.7 is 137 and an integer n is 10 * n.    *)
(***************************************************************************)
EXTENDS Integers, Sequences, FiniteSets, TLC

\* ------------------------------------------------------------------------
\* Bounds of the model
\* ------------------------------------------------------------------------

\* Longest username string a request carries.
MaxNameLen == 2

\* Length of the long repository listing (one fork and more non-fork
\* repositories than the ranked subset holds).
WideRepos == 8

\* Length of the listing with more non-fork repositories than the language
\* sample holds.
LongRepos == 16

\* Number of files of the large repository (more than the top-repository
\* listing holds).
ManyFiles == 51

\* ------------------------------------------------------------------------
\* Generic helpers
\* ------------------------------------------------------------------------

Null == <<>>

Some(x) == <<x>>

\* a ?? b
Coalesce(a, b) == IF a = Null THEN b ELSE a[1]

Min(a, b) == IF a < b THEN a ELSE b

Max(a, b) == IF a > b THEN a ELSE b

\* Array.prototype.slice(0, n)
Slice(s, n) == SubSeq(s, 1, Min(n, Len(s)))

\* Array.prototype.reduce((sum, x) => sum + x, 0) over a sequence of numbers
RECURSIVE Sum(_)
Sum(s) == IF s = <<>> THEN 0 ELSE Head(s) + Sum(Tail(s))

\* String.prototype.startsWith
StartsWith(s, p) == Len(p) <= Len(s) /\ SubSeq(s, 1, Len(p)) = p

\* String.prototype.includes
Includes(s, p) ==
  \E i \in 1..(Len(s) - Len(p) + 1) : SubSeq(s, i, i + Len(p) - 1) = p

\* Array.prototype.sort with the comparator (a, b) => key(b) - key(a), the keys
\* given as a sequence aligned with the array: the indices in stable descending
\* order (equal keys keep their relative order).
RECURSIVE InsertDesc(_, _, _)
InsertDesc(i, order, keys) ==
  IF order = <<>> THEN <<i>>
  ELSE IF keys[Head(order)] >= keys[i]
       THEN <<Head(order)>> \o InsertDesc(i, Tail(order), keys)
       ELSE <<i>> \o order

RECURSIVE SortPerm(_, _)
SortPerm(n, keys) ==
  IF n = 0 THEN <<>> ELSE InsertDesc(n, SortPerm(n - 1, keys), keys)

SortDesc(s, keys) == [j \in 1..Len(s) |-> s[SortPerm(Len(s), keys)[j]]]

SeqRange(s) == {s[i] : i \in 1..Len(s)}

\* All sequences over S of length at most n.
SeqsUpTo(S, n) == UNION {[1..k -> S] : k \in 0..n}

\* ------------------------------------------------------------------------
\* Constants of the program
\* ------------------------------------------------------------------------

\* per_page of repos.listForUser
ListPageSize == 30

\* allRepos.slice(0, 15): repositories sampled for languages
LanguageSample == 15

\* .slice(0, 6): size of the ranked subset
RankedLimit == 6

\* dirs.slice(0, 15)
DirLimit == 15

\* .slice(0, 50): entries of the top repository's file listing
TreeLimit == 50

\* readmeContent.slice(0, 3000)
ReadmeLimit == 3000

\* 1000 * 60 * 60 * 24
DayMs == 86400000

\* ------------------------------------------------------------------------
\* Characters and strings
\* ------------------------------------------------------------------------

UpperCase == <<"A", "B", "C", "D", "E", "F", "G", "H", "I", "J", "K", "L", "M", "N", "O", "P", "Q", "R", "S", "T", "U", "V", "W", "X", "Y", "Z">>

LowerCase == <<"a", "b", "c", "d", "e", "f", "g", "h", "i", "j", "k", "l", "m", "n", "o", "p", "q", "r", "s", "t", "u", "v", "w", "x", "y", "z">>

Digits == {"0", "1", "2", "3", "4", "5", "6", "7", "8", "9"}

WhiteSpace == {" ", "\t", "\n"}

\* The complement of the class [^a-zA-Z0-9-] of route.ts line 17.
AllowedChars == SeqRange(UpperCase) \cup SeqRange(LowerCase) \cup Digits \cup {"-"}

\* String.prototype.toLowerCase, one character
LowerChar(c) ==
  IF c \in SeqRange(UpperCase)
  THEN LowerCase[CHOOSE i \in 1..Len(UpperCase) : UpperCase[i] = c]
  ELSE c

\* String.prototype.toLowerCase
ToLowerCase(s) == [i \in 1..Len(s) |-> LowerChar(s[i])]

\* String.prototype.trim
RECURSIVE TrimStart(_)
TrimStart(s) ==
  IF s # <<>> /\ Head(s) \in WhiteSpace THEN TrimStart(Tail(s)) ELSE s

RECURSIVE TrimEnd(_)
TrimEnd(s) ==
  IF s # <<>> /\ s[Len(s)] \in WhiteSpace
  THEN TrimEnd(SubSeq(s, 1, Len(s) - 1))
  ELSE s

Trim(s) == TrimEnd(TrimStart(s))

\* username.trim().replace(/[^a-zA-Z0-9-]/g, "")
Sanitize(s) == SelectSeq(Trim(s), LAMBDA c : c \in AllowedChars)

\* ------------------------------------------------------------------------
\* Pattern sets of the code-quality heuristics
\* ------------------------------------------------------------------------

ciPatterns ==
  << <<".", "g", "i", "t", "h", "u", "b", "/", "w", "o", "r", "k", "f", "l", "o", "w", "s">>,
     <<".", "g", "i", "t", "l", "a", "b", "-", "c", "i", ".", "y", "m", "l">>,
     <<"J", "e", "n", "k", "i", "n", "s", "f", "i", "l", "e">>,
     <<".", "c", "i", "r", "c", "l", "e", "c", "i">>,
     <<".", "t", "r", "a", "v", "i", "s", ".", "y", "m", "l">> >>

testPatterns ==
  << <<"t", "e", "s", "t">>,
     <<"t", "e", "s", "t", "s">>,
     <<"_", "_", "t", "e", "s", "t", "s", "_", "_">>,
     <<"s", "p", "e", "c">>,
     <<"s", "p", "e", "c", "s">>,
     <<".", "t", "e", "s", "t", ".">>,
     <<".", "s", "p", "e", "c", ".">> >>

lintPatterns ==
  << <<".", "e", "s", "l", "i", "n", "t", "r", "c">>,
     <<".", "e", "s", "l", "i", "n", "t", "r", "c", ".", "j", "s">>,
     <<".", "e", "s", "l", "i", "n", "t", "r", "c", ".", "j", "s", "o", "n">>,
     <<"e", "s", "l", "i", "n", "t", ".", "c", "o", "n", "f", "i", "g">>,
     <<".", "p", "r", "e", "t", "t", "i", "e", "r", "r", "c">>,
     <<".", "p", "y", "l", "i", "n", "t", "r", "c">>,
     <<"p", "y", "p", "r", "o", "j", "e", "c", "t", ".", "t", "o", "m", "l">>,
     <<".", "f", "l", "a", "k", "e", "8">>,
     <<"b", "i", "o", "m", "e", ".", "j", "s", "o", "n">> >>

docPatterns ==
  << <<"d", "o", "c", "s">>,
     <<"d", "o", "c", "u", "m", "e", "n", "t", "a", "t", "i", "o", "n">>,
     <<"d", "o", "c">> >>

GitignoreName == <<".", "g", "i", "t", "i", "g", "n", "o", "r", "e">>

ContributingName == <<"c", "o", "n", "t", "r", "i", "b", "u", "t", "i", "n", "g">>

ChangelogName == <<"c", "h", "a", "n", "g", "e", "l", "o", "g">>

DotGithubName == <<".", "g", "i", "t", "h", "u", "b">>

EnvExampleName == <<".", "e", "n", "v", ".", "e", "x", "a", "m", "p", "l", "e">>

EnvSampleName == <<".", "e", "n", "v", ".", "s", "a", "m", "p", "l", "e">>

DockerfileName == <<"d", "o", "c", "k", "e", "r", "f", "i", "l", "e">>

\* patterns.some((p) => allPaths.some((f) => f.includes(p.toLowerCase())))
SomeIncludes(patterns, allPaths) ==
  \E i \in 1..Len(patterns) : \E j \in 1..Len(allPaths) :
    Includes(allPaths[j], ToLowerCase(patterns[i]))

\* patterns.some((p) => allPaths.some((f) => f.startsWith(p)))
SomeStartsWith(patterns, allPaths) ==
  \E i \in 1..Len(patterns) : \E j \in 1..Len(allPaths) :
    StartsWith(allPaths[j], patterns[i])

\* tree.filter((item) => item.type === type).map((item) => item.path ?? "")
\*     .filter(Boolean)
PathsOfType(tree, type) ==
  LET items == SelectSeq(tree, LAMBDA item : item.type = type)
      paths == [i \in 1..Len(items) |-> Coalesce(items[i].path, <<>>)]
  IN  SelectSeq(paths, LAMBDA p : p # <<>>)

\* The record pushed when repos.get and git.getTree both succeeded.
QualityRecord(name, tree) ==
  LET files == PathsOfType(tree, "blob")
      dirs == PathsOfType(tree, "tree")
      both == files \o dirs
      allPaths == [i \in 1..Len(both) |-> ToLowerCase(both[i])]
  IN  [ repo |-> name,
        hasCI |-> SomeIncludes(ciPatterns, allPaths),
        hasTests |-> SomeIncludes(testPatterns, allPaths),
        hasDocs |-> SomeStartsWith(docPatterns, allPaths),
        hasLinting |-> SomeIncludes(lintPatterns, allPaths),
        hasGitignore |-> \E j \in 1..Len(allPaths) : allPaths[j] = GitignoreName,
        hasContributing |->
          \E j \in 1..Len(allPaths) : Includes(allPaths[j], ContributingName),
        hasChangelog |->
          \E j \in 1..Len(allPaths) : Includes(allPaths[j], ChangelogName),
        hasDotGithub |->
          \E j \in 1..Len(allPaths) : StartsWith(allPaths[j], DotGithubName),
        hasEnvExample |->
          \E j \in 1..Len(allPaths) :
            \/ Includes(allPaths[j], EnvExampleName)
            \/ Includes(allPaths[j], EnvSampleName),
        hasDockerfile |->
          \E j \in 1..Len(allPaths) : Includes(allPaths[j], DockerfileName),
        fileCount |-> Len(files),
        directoryStructure |-> Slice(dirs, DirLimit) ]

\* a placeholder that reports one file
QualityPlaceholderStale(name) ==
  [ repo |-> name,
    hasCI |-> FALSE, hasTests |-> FALSE, hasDocs |-> FALSE, hasLinting |-> FALSE,
    hasGitignore |-> FALSE, hasContributing |-> FALSE, hasChangelog |-> FALSE,
    hasDotGithub |-> FALSE, hasEnvExample |-> FALSE, hasDockerfile |-> FALSE,
    fileCount |-> 1, directoryStructure |-> <<>> ]

\* The record pushed by the catch block of the tree step.
QualityPlaceholder(name) ==
  [ repo |-> name,
    hasCI |-> FALSE, hasTests |-> FALSE, hasDocs |-> FALSE, hasLinting |-> FALSE,
    hasGitignore |-> FALSE, hasContributing |-> FALSE, hasChangelog |-> FALSE,
    hasDotGithub |-> FALSE, hasEnvExample |-> FALSE, hasDockerfile |-> FALSE,
    fileCount |-> 0, directoryStructure |-> <<>> ]

\* a record that counts the recent commits in the first response
CommitRecordOfFirst(name, allCommits, recentCommits) ==
  [ repo |-> name,
    totalCommits |-> IF Len(allCommits) > 0 THEN 1 ELSE 0,
    recentCommits |-> Len(allCommits),
    lastCommitDate |-> IF Len(allCommits) > 0 THEN allCommits[1].date ELSE Null ]

\* The record pushed when both listCommits calls succeeded.
CommitRecord(name, allCommits, recentCommits) ==
  [ repo |-> name,
    totalCommits |-> IF Len(allCommits) > 0 THEN 1 ELSE 0,
    recentCommits |-> Len(recentCommits),
    lastCommitDate |-> IF Len(allCommits) > 0 THEN allCommits[1].date ELSE Null ]

\* a placeholder that does not say whose it is
CommitPlaceholderUnnamed(name) ==
  [repo |-> "", totalCommits |-> 0, recentCommits |-> 0, lastCommitDate |-> Null]

\* The record pushed by the catch block of the commit step.
CommitPlaceholder(name) ==
  [ repo |-> name, totalCommits |-> 0, recentCommits |-> 0,
    lastCommitDate |-> Null ]

\* The entry pushed on repos after the README probe.
RepoEntry(repo, has_readme) ==
  [ name |-> repo.name,
    full_name |-> repo.full_name,
    description |-> repo.description,
    html_url |-> repo.html_url,
    language |-> repo.language,
    stargazers_count |-> Coalesce(repo.stargazers_count, 0),
    forks_count |-> Coalesce(repo.forks_count, 0),
    open_issues_count |-> Coalesce(repo.open_issues_count, 0),
    topics |-> Coalesce(repo.topics, <<>>),
    has_readme |-> has_readme,
    license |->
      IF repo.license = Null THEN Null
      ELSE Some([name |-> Coalesce(repo.license[1].name, "Unknown")]),
    updated_at |-> Coalesce(repo.updated_at, ""),
    created_at |-> Coalesce(repo.created_at, "") ]

\* a merge in which the response replaces what was there
MergeLanguagesLastWins(stats, data) ==
  [ lang \in DOMAIN stats \cup DOMAIN data |->
      IF lang \in DOMAIN data THEN data[lang] ELSE stats[lang] ]

\* LanguageStats after one listLanguages response is merged in:
\* languageStats[lang] = (languageStats[lang] || 0) + bytes
MergeLanguages(stats, data) ==
  [ lang \in DOMAIN stats \cup DOMAIN data |->
      (IF lang \in DOMAIN stats THEN stats[lang] ELSE 0)
      + (IF lang \in DOMAIN data THEN data[lang] ELSE 0) ]

\* ------------------------------------------------------------------------
\* JSON values and JavaScript numbers (critique client)
\* ------------------------------------------------------------------------

\* A JSON value is [t |-> type, v |-> payload]: a number carries <<tenths>>, a
\* string <<text>>, a boolean <<b>>, an array its elements, an object <<fields>>
\* (a function from field names to values); undefined, null and NaN carry <<>>.
JUndefined == [t |-> "undefined", v |-> <<>>]

JNull == [t |-> "null", v |-> <<>>]

JNaN == [t |-> "NaN", v |-> <<>>]

JNum(tenths) == [t |-> "number", v |-> <<tenths>>]

JInt(n) == JNum(10 * n)

JStr(s) == [t |-> "string", v |-> <<s>>]

JBool(b) == [t |-> "boolean", v |-> <<b>>]

JArr(items) == [t |-> "array", v |-> items]

JObj(fields) == [t |-> "object", v |-> <<fields>>]

\* typeof x === "number"
IsNumber(x) == x.t \in {"number", "NaN"}

\* typeof x === "string"
IsString(x) == x.t = "string"

\* Array.isArray(x)
IsArray(x) == x.t = "array"

\* obj.field
Get(obj, field) ==
  IF obj.t = "object" /\ field \in DOMAIN obj.v[1] THEN obj.v[1][field]
  ELSE JUndefined

\* obj.field = value
Put(obj, field, value) ==
  JObj([f \in DOMAIN obj.v[1] \cup {field} |->
          IF f = field THEN value ELSE obj.v[1][f]])

\* a || b in place of a ?? b: zero and the empty string give b as well
JCoalesceFalsy(a, b) ==
  IF \/ a.t \in {"undefined", "null", "NaN"}
     \/ a.t = "number" /\ a.v[1] = 0
     \/ a.t = "string" /\ a.v[1] = ""
     \/ a.t = "boolean" /\ ~a.v[1]
  THEN b ELSE a

\* a ?? b on JSON values
JCoalesce(a, b) == IF a.t \in {"undefined", "null"} THEN b ELSE a

\* The strings of the model that JavaScript converts to a finite number.
NumericStrings == ("" :> 0) @@ ("7" :> 70) @@ ("12.5" :> 125)

\* ToNumber, the conversion Math.round applies to its argument
ToNumber(x) ==
  CASE x.t = "number" -> x
    [] x.t = "null" -> JNum(0)
    [] x.t = "boolean" -> IF x.v[1] THEN JNum(10) ELSE JNum(0)
    [] x.t = "string" ->
         IF x.v[1] \in DOMAIN NumericStrings THEN JNum(NumericStrings[x.v[1]])
         ELSE JNaN
    [] x.t = "array" /\ x.v = <<>> -> JNum(0)
    [] OTHER -> JNaN

\* Math.round: to the nearest integer, a half toward plus infinity
MathRound(x) ==
  LET n == ToNumber(x)
  IN  IF n.t = "NaN" THEN JNaN ELSE JNum(10 * ((n.v[1] + 5) \div 10))

\* Math.min(k, x) with k an integer literal
MathMin(k, x) ==
  IF x.t = "NaN" THEN JNaN ELSE JNum(Min(10 * k, x.v[1]))

\* Math.max(k, x) with k an integer literal
MathMax(k, x) ==
  IF x.t = "NaN" THEN JNaN ELSE JNum(Max(10 * k, x.v[1]))

\* Math.max(0, Math.min(hi, Math.round(x)))
Clamp(x, hi) == MathMax(0, MathMin(hi, MathRound(x)))

\* x is an integer in lo..hi
IsIntegerIn(x, lo, hi) ==
  /\ x.t = "number"
  /\ x.v[1] % 10 = 0
  /\ 10 * lo <= x.v[1]
  /\ x.v[1] <= 10 * hi

\* ------------------------------------------------------------------------
\* Errors and messages (sequences of text fragments)
\* ------------------------------------------------------------------------

\* `GitHub user "${username}" not found`
NotFoundMessage(username) ==
  <<"GitHub user \"">> \o username \o <<"\" not found">>

GitHubNotFoundError(username) ==
  [name |-> "GitHubNotFoundError", message |-> NotFoundMessage(username)]

\* What a rejected Octokit call throws: an error with or without a status.
RequestError(status) ==
  [name |-> "HttpError", message |-> <<"request failed">>, status |-> status]

EmptyResponseError ==
  [name |-> "Error", message |-> <<"Groq returned empty response">>]

SchemaError ==
  [name |-> "Error",
   message |-> <<"Groq response did not match expected schema">>]

\* JSON.parse on text that is not JSON, request.json() on such a body
SyntaxError ==
  [name |-> "SyntaxError", message |-> <<"Unexpected token in JSON">>]

\* Destructuring or reading a property of null
TypeError ==
  [name |-> "TypeError", message |-> <<"Cannot read properties of null">>]

\* The Groq SDK failing to reach the service
ConnectionError ==
  [name |-> "APIConnectionError", message |-> <<"Connection error.">>]

UsernameRequiredMessage == <<"Username is required">>

InvalidUsernameMessage == <<"Invalid username format">>

GenericFailureMessage == <<"Failed to analyze profile. Please try again.">>

\* ------------------------------------------------------------------------
\* The remote world: what GitHub holds and what the LLM answers
\* ------------------------------------------------------------------------

Chars == {"a", "-", " ", "@"}

RepoNames ==
  << "r1", "r2", "r3", "r4", "r5", "r6", "r7", "r8", "r9", "r10", "r11", "r12",
     "r13", "r14", "r15", "r16", "r17", "r18" >>

TreeSrc ==
  << [path |-> Some(<<"s", "r", "c">>), type |-> "tree"],
     [path |-> Some(<<"s", "r", "c", "/", "a", ".", "t", "s">>), type |-> "blob"],
     [path |-> Some(<<".", "g", "i", "t", "i", "g", "n", "o", "r", "e">>), type |-> "blob"] >>

TreeFlat ==
  << [path |-> Some(<<"D", "o", "c", "k", "e", "r", "f", "i", "l", "e">>), type |-> "blob"],
     [path |-> Some(<<"R", "E", "A", "D", "M", "E", ".", "m", "d">>), type |-> "blob"] >>

TreeFull ==
  << [path |-> Some(<<".", "g", "i", "t", "h", "u", "b">>), type |-> "tree"],
     [path |-> Some(<<".", "g", "i", "t", "h", "u", "b", "/", "w", "o", "r", "k", "f", "l", "o", "w", "s">>), type |-> "tree"],
     [path |-> Some(<<".", "g", "i", "t", "h", "u", "b", "/", "w", "o", "r", "k", "f", "l", "o", "w", "s", "/", "c", "i", ".", "y", "m", "l">>), type |-> "blob"],
     [path |-> Some(<<"d", "o", "c", "s">>), type |-> "tree"],
     [path |-> Some(<<"t", "e", "s", "t", "s">>), type |-> "tree"],
     [path |-> Some(<<"t", "e", "s", "t", "s", "/", "a", ".", "t", "e", "s", "t", ".", "j", "s">>), type |-> "blob"],
     [path |-> Some(<<".", "e", "s", "l", "i", "n", "t", "r", "c">>), type |-> "blob"],
     [path |-> Some(<<"C", "H", "A", "N", "G", "E", "L", "O", "G", ".", "m", "d">>), type |-> "blob"],
     [path |-> Some(<<"C", "O", "N", "T", "R", "I", "B", "U", "T", "I", "N", "G", ".", "m", "d">>), type |-> "blob"],
     [path |-> Some(<<".", "e", "n", "v", ".", "e", "x", "a", "m", "p", "l", "e">>), type |-> "blob"] >>

\* The tree of a large repository: a directory and ManyFiles files in it.
DigitChars == <<"0", "1", "2", "3", "4", "5", "6", "7", "8", "9">>

TreeMany ==
  << [path |-> Some(<<"l", "i", "b">>), type |-> "tree"] >>
  \o [i \in 1..ManyFiles |->
        [path |-> Some(<<"l", "i", "b", "/", DigitChars[(i \div 10) + 1],
                         DigitChars[(i % 10) + 1]>>),
         type |-> "blob"]]

\* What GitHub holds for a repository besides its listing entry.
RepoData(name) ==
  CASE name = "big" ->
         [ languages |-> ("C" :> 9000),
           readme |-> Some(2999),
           commits |-> <<[date |-> Some("2026-11-01")]>>,
           recent |-> 1,
           tree |-> Some(TreeMany) ]
    [] name = "r1" ->
         [ languages |-> ("TypeScript" :> 300) @@ ("CSS" :> 20),
           readme |-> Some(4000),
           commits |-> <<[date |-> Some("2026-10-30")], [date |-> Some("2026-10-01")]>>,
           recent |-> 1,
           tree |-> Some(TreeSrc) ]
    [] name = "r2" ->
         [ languages |-> ("TypeScript" :> 50) @@ ("Go" :> 7),
           readme |-> Null,
           commits |-> <<>>,
           recent |-> 0,
           tree |-> Some(TreeFlat) ]
    [] name = "r3" ->
         [ languages |-> ("Python" :> 10),
           readme |-> Some(100),
           commits |-> <<[date |-> Some("2025-01-01")]>>,
           recent |-> 0,
           tree |-> Some(TreeFull) ]
    [] OTHER ->
         [ languages |-> ("Go" :> 1),
           readme |-> Some(10),
           commits |-> <<[date |-> Some("2024-06-01")]>>,
           recent |-> 0,
           tree |-> Some(TreeSrc) ]

\* An entry of the repos.listForUser response.
ListedRepo(name, stars, forks, fork) ==
  [ name |-> name,
    full_name |-> "a/" \o name,
    description |-> Null,
    html_url |-> "https://github.com/a/" \o name,
    language |-> Null,
    stargazers_count |-> stars,
    forks_count |-> forks,
    open_issues_count |-> Some(0),
    topics |-> Null,
    license |-> IF fork THEN Null ELSE Some([name |-> Null]),
    updated_at |-> Some("2026-10-31"),
    created_at |-> Null,
    fork |-> fork ]

\* The public profile users.getByUsername returns.
ProfileData(username) ==
  [ login |-> username, name |-> Null, avatar_url |-> "https://avatars/a",
    bio |-> Null, company |-> Null, location |-> Null, blog |-> Null,
    public_repos |-> 3, followers |-> 1, following |-> 0,
    created_at |-> 5 * DayMs + 1 ]

\* Date.now() of the request
Clock == [now |-> 7 * DayMs]

\* A critique the LLM returns with every field as the prompt asks.
GoodFields ==
  ("score" :> JInt(72)) @@ ("headline" :> JStr("Solid Engineer, Zero DevOps"))
  @@ ("red_flags" :> JArr(<<JStr("no tests")>>))
  @@ ("green_flags" :> JArr(<<JStr("good README")>>))
  @@ ("readme_score" :> JInt(6)) @@ ("code_quality_score" :> JInt(4))
  @@ ("consistency_score" :> JInt(3)) @@ ("diversity_score" :> JInt(8))
  @@ ("improvement_plan" :> JArr(<<JStr("add CI to r1")>>))
  @@ ("tech_stack_verdict" :> JStr("narrow"))
  @@ ("commit_verdict" :> JStr("sporadic"))

\* completion.choices[0]?.message?.content: text that parses to a JSON value,
\* text that does not parse, or no text
JsonContent(value) == [kind |-> "json", value |-> value]

MalformedContent == [kind |-> "malformed", value |-> JUndefined]

EmptyContent == [kind |-> "empty", value |-> JUndefined]

GoodContent == JsonContent(JObj(GoodFields))

\* Raw numbers an answer may carry, in tenths: below, inside and above both
\* score ranges, integral and fractional.
RawNumbers ==
  {-1000, -15, -5, -4, 0, 4, 5, 14, 15, 70, 95, 100, 104, 105, 137, 995, 1000,
   1004, 1005, 2500}

\* Values an answer may carry where a number is asked for.
RawScores ==
  {JNum(n) : n \in RawNumbers}
  \cup {JNull, JStr("high"), JStr("7"), JStr(""), JBool(TRUE), JArr(<<>>),
        JArr(<<JInt(3)>>), JObj(<<>>)}

\* Values an answer may carry where a string or a list of strings is asked for.
RawTexts ==
  { JNull, JInt(1), JStr("text"), JArr(<<>>), JArr(<<JInt(1), JNull>>),
    JArr([i \in 1..7 |-> JStr("flag")]) }

ScoreFields ==
  {"score", "readme_score", "code_quality_score", "consistency_score",
   "diversity_score"}

TextFields ==
  {"headline", "red_flags", "green_flags", "improvement_plan",
   "tech_stack_verdict", "commit_verdict"}

\* fields with one field set or removed
With(fields, field, value) ==
  [f \in DOMAIN fields \cup {field} |-> IF f = field THEN value ELSE fields[f]]

Without(fields, field) == [f \in DOMAIN fields \ {field} |-> fields[f]]

\* The answers of the LLM: the good critique, the good critique with one field
\* replaced or missing, with the three optional scores missing, with a field
\* the schema does not name, a JSON value that is no object, text that is no
\* JSON, and no text.
Contents ==
  {GoodContent, MalformedContent, EmptyContent}
  \cup {JsonContent(v) : v \in {JNull, JInt(5), JArr(<<>>), JObj(<<>>)}}
  \cup {JsonContent(JObj(With(GoodFields, f, v))) :
          f \in ScoreFields, v \in RawScores}
  \cup {JsonContent(JObj(With(GoodFields, f, v))) :
          f \in TextFields, v \in RawTexts}
  \cup {JsonContent(JObj(Without(GoodFields, f))) :
          f \in ScoreFields \cup TextFields}
  \cup {JsonContent(JObj(
          Without(Without(Without(GoodFields, "code_quality_score"),
                          "consistency_score"), "diversity_score")))}
  \cup {JsonContent(JObj(With(GoodFields, "extra", JStr("kept"))))}

\* Request bodies: not JSON, the JSON value null, or an object whose username
\* field is absent, a number or a string.
StringBodies ==
  {[kind |-> "object", username |-> JStr(s)] : s \in SeqsUpTo(Chars, MaxNameLen)}

OtherBodies ==
  { [kind |-> "invalid", username |-> JUndefined],
    [kind |-> "null", username |-> JUndefined],
    [kind |-> "object", username |-> JUndefined],
    [kind |-> "object", username |-> JNull],
    [kind |-> "object", username |-> JInt(0)],
    [kind |-> "object", username |-> JInt(7)],
    [kind |-> "object", username |-> JArr(<<>>)] }

PlainBody == [kind |-> "object", username |-> JStr(<<"a">>)]

\* ------------------------------------------------------------------------
\* The worlds a request is checked against
\* ------------------------------------------------------------------------

\* Listings of up to three repositories: none, one, two whose listing order is
\* not their star order, two with equal stars around a fork, three of which
\* one has no star count.
Listings ==
  { <<>>,
    <<ListedRepo("r1", Some(1), Some(2), FALSE)>>,
    <<ListedRepo("r2", Some(1), Some(0), FALSE),
      ListedRepo("r1", Some(3), Some(1), FALSE)>>,
    <<ListedRepo("r1", Some(2), Some(1), FALSE),
      ListedRepo("r4", Some(9), Some(4), TRUE),
      ListedRepo("r2", Some(2), Null, FALSE)>>,
    <<ListedRepo("r3", Null, Some(1), FALSE),
      ListedRepo("r2", Some(1), Some(1), FALSE),
      ListedRepo("r1", Some(1), Some(0), FALSE)>> }

\* A listing with more non-fork repositories than are ranked: the i-th has
\* i stars and has been forked once, the second is itself a fork.
WideListing ==
  [i \in 1..WideRepos |-> ListedRepo(RepoNames[i], Some(i), Some(1), i = 2)]

\* A listing with more non-fork repositories than have their languages
\* fetched, all with one star.
LongListing ==
  [i \in 1..LongRepos |-> ListedRepo(RepoNames[i], Some(1), Some(0), FALSE)]

\* the listing taken as it came
NonForksUnfiltered(data) == data

\* reposResponse.data.filter((r) => !r.fork)
NonForks(data) == SelectSeq(data, LAMBDA r : ~r.fork)

NamesOf(listing) == {listing[i].name : i \in 1..Len(listing)}

\* The stages of fetchGitHubData after the listing
Stages == {"languages", "ranked", "deep"}

\* A world: the request body, the listing GitHub returns, the calls that may
\* fail (stage and repository), whether GitHub answers one repository at a
\* time, and the content the LLM answers with.
World(body, listing, flaky, serial, llm) ==
  [body |-> body, listing |-> listing, flaky |-> flaky, serial |-> serial,
   llm |-> llm]

OneRepo == <<ListedRepo("r1", Some(1), Some(2), FALSE)>>

BigRepo == <<ListedRepo("big", Some(5), Some(0), FALSE)>>

Envs ==
  \* every request body, against a profile without repositories
  {World(b, <<>>, {}, FALSE, GoodContent) : b \in StringBodies \cup OtherBodies}
  \cup
  \* one repository, any call of which may fail
  {World(PlainBody, OneRepo, Stages \X {"r1"}, FALSE, GoodContent)}
  \cup
  \* every short listing, answered in any order: no call failing, any call of
  \* the language sample and the deep dive failing
  {World(PlainBody, l, {"languages", "deep"} \X NamesOf(l), FALSE, GoodContent) :
     l \in Listings}
  \cup
  \* the listings with two ranked repositories, answered in any order, any
  \* call of the ranked stage failing
  {World(PlainBody, l, {"ranked"} \X NamesOf(l), FALSE, GoodContent) :
     l \in {x \in Listings : Len(NonForks(x)) = 2}}
  \cup
  \* two repositories, answered in any order, any call of the ranked stage
  \* for one of them failing
  {World(PlainBody, l, {"ranked"} \X {"r1"}, FALSE, GoodContent) :
     l \in {x \in Listings : Len(x) = 2}}
  \cup
  \* the long listing, answered one repository at a time, the calls of at most
  \* one repository failing
  {World(PlainBody, WideListing, Stages \X f, TRUE, GoodContent) :
     f \in {{}} \cup {{n} : n \in NamesOf(WideListing)}}
  \cup
  \* the listing longer than the language sample, answered one repository at a
  \* time, the languages call of the first and of the last sampled failing
  {World(PlainBody, LongListing,
         {"languages"} \X {RepoNames[1], RepoNames[LanguageSample]},
         TRUE, GoodContent)}
  \cup
  \* the large repository, any call of the deep dive failing
  {World(PlainBody, BigRepo, {"deep"} \X {"big"}, FALSE, GoodContent)}
  \cup
  \* every answer of the LLM, against a profile with one repository
  {World(PlainBody, OneRepo, {}, FALSE, c) : c \in Contents}

\* ------------------------------------------------------------------------
\* State
\* ------------------------------------------------------------------------

VARIABLES
  env,               \* the request and the remote world it runs against
  pc,                \* where the handler is suspended
  issued,            \* remote calls issued so far: call |-> how many times
  failures,          \* remote calls that failed so far, with stage and status
  thrown,            \* the error that reached the catch block of POST, if any
  response,          \* the HTTP response, once sent
  sanitizedUsername,
  user, accountAgeDays,
  allRepos, sortedRepos, totalStars, totalForks,
  languageStats,
  langPending,       \* indices of allRepos whose listLanguages call is in flight
  repos, commitActivity, codeQuality,
  tasks,             \* one entry per ranked repository: the task's position
  topRepoTree, topRepoReadme,
  githubData,        \* the bundle fetchGitHubData returned, if it returned
  analysis,          \* the critique analyzeWithGroq returned, if it returned
  parked             \* the requests of the process other than the one whose
                     \* callback runs: request |-> its handler's state

vars ==
  << env, pc, issued, failures, thrown, response, sanitizedUsername, user, accountAgeDays,
     allRepos, sortedRepos, totalStars, totalForks, languageStats, langPending,
     repos, commitActivity, codeQuality, tasks, topRepoTree, topRepoReadme,
     githubData, analysis, parked >>

profileVars == <<user, accountAgeDays>>

listingVars == <<allRepos, sortedRepos, totalStars, totalForks>>

fanoutVars == <<repos, commitActivity, codeQuality, tasks>>

deepVars == <<topRepoTree, topRepoReadme>>

\* A remote call: endpoint, repository ("" when none), variant of the call.
Call(endpoint, repo, variant) == <<endpoint, repo, variant>>

\* The call log after one more call
Issue(log, call) ==
  IF call \in DOMAIN log THEN [log EXCEPT ![call] = @ + 1]
  ELSE log @@ (call :> 1)

RECURSIVE IssueAll(_, _)
IssueAll(log, calls) ==
  IF calls = <<>> THEN log ELSE IssueAll(Issue(log, Head(calls)), Tail(calls))

\* A failed remote call: the stage it was issued in, the call, the status of
\* the error it rejected with (none for a transport fault).
Failure(stage, call, status) == [stage |-> stage, call |-> call, status |-> status]

\* The failure log after a call was answered: a call for something GitHub does
\* not hold fails with 404, any other failing call with 500.
Logged(outcome, held, stage, call) ==
  IF outcome = "ok" THEN failures
  ELSE failures \cup {Failure(stage, call, Some(IF held THEN 500 ELSE 404))}

\* NextResponse.json(body, { status })
Respond(status, body) == Some([status |-> status, body |-> body])

\* a catch block that surfaces the caught error's message
CatchResponseLeaking(error) ==
  IF error.name = "GitHubNotFoundError"
  THEN Respond(404, [error |-> error.message])
  ELSE Respond(500, [error |-> error.message])

\* The catch block of POST
CatchResponse(error) ==
  IF error.name = "GitHubNotFoundError"
  THEN Respond(404, [error |-> error.message])
  ELSE Respond(500, [error |-> GenericFailureMessage])

\* POST's catch block runs: the handler ends with an error response.
Fail(error) ==
  /\ thrown' = Some(error)
  /\ response' = CatchResponse(error)
  /\ pc' = "done"

\* May a call of this stage for this repository fail in this world?
MayFail(stage, name) == <<stage, name>> \in env.flaky

Outcomes(stage, name) == IF MayFail(stage, name) THEN {"ok", "fail"} ELSE {"ok"}

\* ------------------------------------------------------------------------
\* Critique client: validation and clamping of the LLM's answer
\* ------------------------------------------------------------------------

\* a validation that also enforces the list length the prompt asks for
SchemaViolatedOverSix(parsed) ==
  \/ ~IsNumber(Get(parsed, "score"))
  \/ ~IsString(Get(parsed, "headline"))
  \/ ~IsArray(Get(parsed, "red_flags"))
  \/ ~IsArray(Get(parsed, "green_flags"))
  \/ ~IsNumber(Get(parsed, "readme_score"))
  \/ ~IsArray(Get(parsed, "improvement_plan"))
  \/ \E f \in {"red_flags", "green_flags", "improvement_plan"} :
       Len(Get(parsed, f).v) > 6

\* The required-field test of analyzeWithGroq: TRUE when the answer is rejected.
SchemaViolated(parsed) ==
  \/ ~IsNumber(Get(parsed, "score"))
  \/ ~IsString(Get(parsed, "headline"))
  \/ ~IsArray(Get(parsed, "red_flags"))
  \/ ~IsArray(Get(parsed, "green_flags"))
  \/ ~IsNumber(Get(parsed, "readme_score"))
  \/ ~IsArray(Get(parsed, "improvement_plan"))

NoAssessment == JStr("No assessment available.")

\* The assignments after validation, in the order of the code.
ClampScores(parsed) ==
  LET p1 == Put(parsed, "score", Clamp(Get(parsed, "score"), 100))
      p2 == Put(p1, "readme_score", Clamp(Get(p1, "readme_score"), 10))
      p3 == Put(p2, "code_quality_score",
                Clamp(JCoalesce(Get(p2, "code_quality_score"), JInt(5)), 10))
      p4 == Put(p3, "consistency_score",
                Clamp(JCoalesce(Get(p3, "consistency_score"), JInt(5)), 10))
      p5 == Put(p4, "diversity_score",
                Clamp(JCoalesce(Get(p4, "diversity_score"), JInt(5)), 10))
      p6 == Put(p5, "tech_stack_verdict",
                JCoalesce(Get(p5, "tech_stack_verdict"), NoAssessment))
  IN  Put(p6, "commit_verdict",
          JCoalesce(Get(p6, "commit_verdict"), NoAssessment))

Threw(error) == [ok |-> FALSE, error |-> error, value |-> JUndefined]

Returned(value) == [ok |-> TRUE, error |-> TypeError, value |-> value]

\* analyzeWithGroq from the completion's content on: what it returns or throws.
AnalyzeContent(content) ==
  CASE content.kind = "empty" -> Threw(EmptyResponseError)
    [] content.kind = "malformed" -> Threw(SyntaxError)
    [] content.value.t = "null" -> Threw(TypeError)
    [] SchemaViolated(content.value) -> Threw(SchemaError)
    [] OTHER -> Returned(ClampScores(content.value))

\* ------------------------------------------------------------------------
\* Initial state
\* ------------------------------------------------------------------------

Init ==
  /\ env \in Envs
  /\ pc = "start"
  /\ issued = <<>>
  /\ failures = {}
  /\ thrown = Null
  /\ response = Null
  /\ sanitizedUsername = <<>>
  /\ user = Null
  /\ accountAgeDays = 0
  /\ allRepos = <<>>
  /\ sortedRepos = <<>>
  /\ totalStars = 0
  /\ totalForks = 0
  /\ languageStats = <<>>
  /\ langPending = {}
  /\ repos = <<>>
  /\ commitActivity = <<>>
  /\ codeQuality = <<>>
  /\ tasks = <<>>
  /\ topRepoTree = Null
  /\ topRepoReadme = Null
  /\ githubData = Null
  /\ analysis = Null
  /\ parked = <<>>

\* ------------------------------------------------------------------------
\* POST: input validation
\* ------------------------------------------------------------------------

\* !username
Falsy(x) ==
  \/ x.t \in {"undefined", "null", "NaN"}
  \/ x.t = "number" /\ x.v[1] = 0
  \/ x.t = "string" /\ x.v[1] = <<>>
  \/ x.t = "boolean" /\ ~x.v[1]

\* route.ts lines 6-27: parse the body, validate and sanitize the username,
\* call fetchGitHubData, which issues users.getByUsername.
Validate ==
  /\ pc = "start"
  /\ LET username == env.body.username
     IN  CASE env.body.kind = "invalid" ->
                /\ Fail(SyntaxError)
                /\ UNCHANGED <<issued, sanitizedUsername>>
           [] env.body.kind = "null" ->
                /\ Fail(TypeError)
                /\ UNCHANGED <<issued, sanitizedUsername>>
           [] Falsy(username) \/ ~IsString(username) ->
                /\ response' = Respond(400, [error |-> UsernameRequiredMessage])
                /\ pc' = "done"
                /\ UNCHANGED <<issued, sanitizedUsername, thrown>>
           [] Sanitize(username.v[1]) = <<>> ->
                /\ response' = Respond(400, [error |-> InvalidUsernameMessage])
                /\ pc' = "done"
                /\ UNCHANGED <<issued, sanitizedUsername, thrown>>
           [] OTHER ->
                /\ sanitizedUsername' = Sanitize(username.v[1])
                /\ issued' = Issue(issued, Call("users.getByUsername", "", ""))
                /\ pc' = "profile"
                /\ UNCHANGED <<thrown, response>>
  /\ UNCHANGED <<parked, env, failures, profileVars, listingVars, languageStats,
                 langPending, fanoutVars, deepVars, githubData, analysis>>

\* ------------------------------------------------------------------------
\* fetchGitHubData: profile and repository listing
\* ------------------------------------------------------------------------

\* The GitHubUser built from the profile response.
UserOf(data) ==
  [ login |-> data.login, name |-> data.name, avatar_url |-> data.avatar_url,
    bio |-> data.bio, company |-> data.company, location |-> data.location,
    blog |-> data.blog, public_repos |-> data.public_repos,
    followers |-> data.followers, following |-> data.following,
    created_at |-> data.created_at ]

\* Math.floor((Date.now() - new Date(created_at).getTime()) / DayMs)
AccountAgeDays(now, created_at) == (now - created_at) \div DayMs

\* The errors users.getByUsername rejects with: no such user, a server fault,
\* a transport fault that carries no status.
ProfileErrors ==
  {RequestError(Some(404)), RequestError(Some(500)), RequestError(Null)}

\* the catch block rethrowing whatever it caught
ProfileFailureRethrown(error, username) == error

\* github.ts lines 91-96: what the catch block around users.getByUsername
\* throws
ProfileFailure(error, username) ==
  IF error.status = Some(404) THEN GitHubNotFoundError(username) ELSE error

\* github.ts lines 88-122: users.getByUsername answered.
ProfileDone ==
  /\ pc = "profile"
  /\ \/ /\ user' = Some(UserOf(ProfileData(sanitizedUsername)))
        /\ accountAgeDays' =
             AccountAgeDays(Clock.now, ProfileData(sanitizedUsername).created_at)
        /\ issued' = Issue(issued, Call("repos.listForUser", "", ""))
        /\ pc' = "listing"
        /\ UNCHANGED <<failures, thrown, response>>
     \/ \E error \in ProfileErrors :
          /\ Fail(ProfileFailure(error, sanitizedUsername))
          /\ failures' = failures \cup
               {Failure("profile", Call("users.getByUsername", "", ""),
                        error.status)}
          /\ UNCHANGED <<issued, profileVars>>
  /\ UNCHANGED <<parked, env, sanitizedUsername, listingVars, languageStats,
                 langPending, fanoutVars, deepVars, githubData, analysis>>

\* r.stargazers_count ?? 0
StarsOf(r) == Coalesce(r.stargazers_count, 0)

\* r.forks_count ?? 0
ForksOf(r) == Coalesce(r.forks_count, 0)

\* [...allRepos].sort(by stars, descending).slice(0, 6)
RankRepos(all) ==
  Slice(SortDesc(all, [i \in 1..Len(all) |-> StarsOf(all[i])]), RankedLimit)

\* the stars of the ranked subset only
TotalStarsOfRanked(all) ==
  Sum([i \in 1..Len(RankRepos(all)) |-> StarsOf(RankRepos(all)[i])])

\* allRepos.reduce((sum, r) => sum + (r.stargazers_count ?? 0), 0)
TotalStars(all) == Sum([i \in 1..Len(all) |-> StarsOf(all[i])])

\* allRepos.reduce((sum, r) => sum + (r.forks_count ?? 0), 0)
TotalForks(all) == Sum([i \in 1..Len(all) |-> ForksOf(all[i])])

\* allRepos.slice(0, 15): the repositories whose languages are fetched
SampledForLanguages(all) == 1..Min(LanguageSample, Len(all))

\* github.ts lines 117-149: repos.listForUser answered; on success the
\* aggregates are computed and one listLanguages call per sampled repository
\* is issued.
ListingDone ==
  /\ pc = "listing"
  /\ \/ /\ Fail(RequestError(Some(500)))
        /\ failures' = failures \cup
             {Failure("listing", Call("repos.listForUser", "", ""), Some(500))}
        /\ UNCHANGED <<issued, listingVars, languageStats, langPending>>
     \/ LET data == Slice(env.listing, ListPageSize)
            all == NonForks(data)
        IN  /\ allRepos' = all
            /\ sortedRepos' = RankRepos(all)
            /\ totalStars' = TotalStars(all)
            /\ totalForks' = TotalForks(all)
            /\ languageStats' = <<>>
            /\ langPending' = SampledForLanguages(all)
            /\ issued' = IssueAll(issued,
                 [i \in SampledForLanguages(all) |->
                    Call("repos.listLanguages", all[i].name, "")])
            /\ pc' = "langs"
            /\ UNCHANGED <<failures, thrown, response>>
  /\ UNCHANGED <<parked, env, sanitizedUsername, profileVars, fanoutVars, deepVars,
                 githubData, analysis>>

\* ------------------------------------------------------------------------
\* fetchGitHubData: language sample
\* ------------------------------------------------------------------------

\* In a world that answers one repository at a time, the call of the
\* highest-numbered repository still waited for is answered first.
LanguageTurn(i) == env.serial => \A j \in langPending : j <= i

\* github.ts lines 137-147: one listLanguages call answered.
LanguagesDone ==
  /\ pc = "langs"
  /\ \E i \in langPending :
       /\ LanguageTurn(i)
       /\ \E outcome \in Outcomes("languages", allRepos[i].name) :
            /\ languageStats' =
                 IF outcome = "ok"
                 THEN MergeLanguages(languageStats,
                                     RepoData(allRepos[i].name).languages)
                 ELSE languageStats
            /\ failures' =
                 Logged(outcome, TRUE, "languages",
                        Call("repos.listLanguages", allRepos[i].name, ""))
       /\ langPending' = langPending \ {i}
  /\ UNCHANGED <<parked, env, pc, issued, thrown, response, sanitizedUsername,
                 profileVars, listingVars, fanoutVars, deepVars, githubData,
                 analysis>>

\* a fan-out that starts without waiting for the language calls
AfterLanguagesNotAwaited ==
  /\ pc = "langs"
  /\ repos' = <<>>
  /\ commitActivity' = <<>>
  /\ codeQuality' = <<>>
  /\ tasks' = [i \in 1..Len(sortedRepos) |->
                 [pc |-> "readme", latest |-> "none", since |-> "none"]]
  /\ issued' = IssueAll(issued,
       [i \in 1..Len(sortedRepos) |->
          Call("repos.getReadme", sortedRepos[i].name, "")])
  /\ pc' = "fanout"
  /\ UNCHANGED <<parked, env, failures, thrown, response, sanitizedUsername, profileVars,
                 listingVars, languageStats, langPending, deepVars,
                 githubData, analysis>>

\* github.ts lines 152-161: the language join completed; the three lists are
\* created and every ranked repository's task starts with its README probe.
AfterLanguages ==
  /\ pc = "langs"
  /\ langPending = {}
  /\ repos' = <<>>
  /\ commitActivity' = <<>>
  /\ codeQuality' = <<>>
  /\ tasks' = [i \in 1..Len(sortedRepos) |->
                 [pc |-> "readme", latest |-> "none", since |-> "none"]]
  /\ issued' = IssueAll(issued,
       [i \in 1..Len(sortedRepos) |->
          Call("repos.getReadme", sortedRepos[i].name, "")])
  /\ pc' = "fanout"
  /\ UNCHANGED <<parked, env, failures, thrown, response, sanitizedUsername, profileVars,
                 listingVars, languageStats, langPending, deepVars,
                 githubData, analysis>>

\* ------------------------------------------------------------------------
\* fetchGitHubData: one task per ranked repository
\* ------------------------------------------------------------------------

TaskTurn(i) ==
  env.serial => \A j \in (i + 1)..Len(tasks) : tasks[j].pc = "done"

\* Outcomes of a call that fails for good when GitHub does not hold the thing
\* asked for.
OutcomesIf(held, stage, name) ==
  IF held THEN Outcomes(stage, name) ELSE {"fail"}

\* github.ts lines 159-200: the README probe answered; the repository's entry
\* is pushed on repos and the two listCommits calls are issued.
ReadmeDone ==
  /\ pc = "fanout"
  /\ \E i \in 1..Len(tasks) :
       LET name == sortedRepos[i].name
       IN  /\ tasks[i].pc = "readme"
           /\ TaskTurn(i)
           /\ \E outcome \in
                  OutcomesIf(RepoData(name).readme # Null, "ranked", name) :
                /\ repos' =
                     Append(repos, RepoEntry(sortedRepos[i], outcome = "ok"))
                /\ failures' =
                     Logged(outcome, RepoData(name).readme # Null, "ranked",
                            Call("repos.getReadme", name, ""))
           /\ tasks' = [tasks EXCEPT ![i] =
                [pc |-> "commits", latest |-> "pending", since |-> "pending"]]
           /\ issued' = IssueAll(issued,
                << Call("repos.listCommits", name, "latest"),
                   Call("repos.listCommits", name, "since") >>)
  /\ UNCHANGED <<parked, env, pc, thrown, response, sanitizedUsername, profileVars,
                 listingVars, languageStats, langPending, commitActivity,
                 codeQuality, deepVars, githubData, analysis>>

\* The response of listCommits with per_page 1
LatestCommits(name) == Slice(RepoData(name).commits, 1)

\* The response of listCommits with since = thirty days ago and per_page 100
RecentCommits(name) == Slice(RepoData(name).commits, RepoData(name).recent)

\* github.ts lines 188-224: one of the two listCommits calls answered.  The
\* inner Promise.all rejects on the first failure and resolves when both have
\* succeeded; either way the task pushes its CommitActivity record and issues
\* repos.get.  The answer to a call whose task has moved on is dropped.
CommitsDone ==
  /\ \E i \in 1..Len(tasks) : \E which \in {"latest", "since"} :
       LET name == sortedRepos[i].name
           other == IF which = "latest" THEN tasks[i].since ELSE tasks[i].latest
       IN  /\ tasks[i][which] = "pending"
           /\ tasks[i].pc = "commits" => pc = "fanout" /\ TaskTurn(i)
           /\ \E outcome \in Outcomes("ranked", name) :
                LET settled == [tasks[i] EXCEPT ![which] = outcome]
                IN  /\ failures' =
                         Logged(outcome, TRUE, "ranked",
                                Call("repos.listCommits", name, which))
                    /\ CASE tasks[i].pc = "commits" /\ outcome = "fail" ->
                              /\ commitActivity' =
                                   Append(commitActivity, CommitPlaceholder(name))
                              /\ tasks' = [tasks EXCEPT ![i] =
                                             [settled EXCEPT !.pc = "info"]]
                              /\ issued' = Issue(issued, Call("repos.get", name, ""))
                         [] tasks[i].pc = "commits" /\ outcome = "ok"
                              /\ other = "ok" ->
                              /\ commitActivity' =
                                   Append(commitActivity,
                                          CommitRecord(name, LatestCommits(name),
                                                       RecentCommits(name)))
                              /\ tasks' = [tasks EXCEPT ![i] =
                                             [settled EXCEPT !.pc = "info"]]
                              /\ issued' = Issue(issued, Call("repos.get", name, ""))
                         [] tasks[i].pc = "commits" ->
                              /\ tasks' = [tasks EXCEPT ![i] = settled]
                              /\ UNCHANGED <<commitActivity, issued>>
                         [] OTHER ->
                              /\ tasks' = [tasks EXCEPT ![i][which] = "dropped"]
                              /\ UNCHANGED <<commitActivity, issued>>
  /\ UNCHANGED <<parked, env, pc, thrown, response, sanitizedUsername, profileVars,
                 listingVars, languageStats, langPending, repos, codeQuality,
                 deepVars, githubData, analysis>>

\* github.ts lines 221-230 and 264-272: repos.get answered; on success
\* git.getTree is issued, on failure the placeholder record is pushed.
InfoDone ==
  /\ pc = "fanout"
  /\ \E i \in 1..Len(tasks) :
       LET name == sortedRepos[i].name
       IN  /\ tasks[i].pc = "info"
           /\ TaskTurn(i)
           /\ \E outcome \in Outcomes("ranked", name) :
                IF outcome = "ok"
                THEN /\ tasks' = [tasks EXCEPT ![i].pc = "tree"]
                     /\ issued' = Issue(issued, Call("git.getTree", name, ""))
                     /\ UNCHANGED <<codeQuality, failures>>
                ELSE /\ tasks' = [tasks EXCEPT ![i].pc = "done"]
                     /\ codeQuality' =
                          Append(codeQuality, QualityPlaceholder(name))
                     /\ failures' =
                          Logged(outcome, TRUE, "ranked",
                                 Call("repos.get", name, ""))
                     /\ UNCHANGED issued
  /\ UNCHANGED <<parked, env, pc, thrown, response, sanitizedUsername, profileVars,
                 listingVars, languageStats, langPending, repos,
                 commitActivity, deepVars, githubData, analysis>>

\* github.ts lines 232-272: git.getTree answered; the repository's
\* CodeQualitySignals record is pushed and its task ends.
TreeDone ==
  /\ pc = "fanout"
  /\ \E i \in 1..Len(tasks) :
       LET name == sortedRepos[i].name
           tree == RepoData(name).tree
       IN  /\ tasks[i].pc = "tree"
           /\ TaskTurn(i)
           /\ \E outcome \in OutcomesIf(tree # Null, "ranked", name) :
                /\ codeQuality' =
                     Append(codeQuality,
                            IF outcome = "ok" THEN QualityRecord(name, tree[1])
                            ELSE QualityPlaceholder(name))
                /\ failures' =
                     Logged(outcome, tree # Null, "ranked",
                            Call("git.getTree", name, ""))
           /\ tasks' = [tasks EXCEPT ![i].pc = "done"]
  /\ UNCHANGED <<parked, env, pc, issued, thrown, response, sanitizedUsername,
                 profileVars, listingVars, languageStats, langPending, repos,
                 commitActivity, deepVars, githubData, analysis>>

\* ------------------------------------------------------------------------
\* fetchGitHubData: deep dive into the top repository, and the return
\* ------------------------------------------------------------------------

\* repos left in the order the README probes were answered
SortReposSkipped(list) == list

\* repos.sort((a, b) => b.stargazers_count - a.stargazers_count)
SortRepos(list) ==
  SortDesc(list, [i \in 1..Len(list) |-> list[i].stargazers_count])

\* the record at the top repository's position instead of the one of its name
FindQualityByPosition(list, name) ==
  IF list = <<>> THEN Null ELSE Some(list[1])

\* codeQuality.find((q) => q.repo === name): the first match, if any
FindQuality(list, name) ==
  LET hits == SelectSeq(list, LAMBDA q : q.repo = name)
  IN  IF hits = <<>> THEN Null ELSE Some(Head(hits))

\* topQuality && topQuality.directoryStructure.length > 0
WantsTopTree(list, name) ==
  LET topQuality == FindQuality(list, name)
  IN  topQuality # Null /\ Len(topQuality[1].directoryStructure) > 0

\* the file listing without the slice
TopTreeOfUncapped(tree) == PathsOfType(tree, "blob")

\* tree.filter(blob).map(path).filter(Boolean).slice(0, 50)
TopTreeOf(tree) == Slice(PathsOfType(tree, "blob"), TreeLimit)

\* readmeContent.slice(0, 3000), the content known by its repository and length
TopReadmeOf(name, length) == [of |-> name, length |-> Min(length, ReadmeLimit)]

\* a bundle whose commitActivity and codeQuality are put in the order of repos
BundleAligned(reposNow, tree, readme) ==
  [ user |-> user[1], repos |-> reposNow, topRepoTree |-> tree,
    topRepoReadme |-> readme,
    commitActivity |->
      [i \in 1..Len(reposNow) |->
         commitActivity[CHOOSE j \in 1..Len(commitActivity) :
                          commitActivity[j].repo = reposNow[i].name]],
    codeQuality |->
      [i \in 1..Len(reposNow) |->
         codeQuality[CHOOSE j \in 1..Len(codeQuality) :
                       codeQuality[j].repo = reposNow[i].name]],
    languageStats |-> languageStats,
    totalStars |-> totalStars, totalForks |-> totalForks,
    accountAgeDays |-> accountAgeDays ]

\* github.ts lines 327-331: the returned bundle
Bundle(reposNow, tree, readme) ==
  [ user |-> user[1], repos |-> reposNow, topRepoTree |-> tree,
    topRepoReadme |-> readme, commitActivity |-> commitActivity,
    codeQuality |-> codeQuality, languageStats |-> languageStats,
    totalStars |-> totalStars, totalForks |-> totalForks,
    accountAgeDays |-> accountAgeDays ]

\* a return after which the chat completion request is sent twice
ReturnThenAskTwice(reposNow, tree, readme) ==
  /\ githubData' = Some(Bundle(reposNow, tree, readme))
  /\ issued' = IssueAll(issued,
       << Call("groq.chat.completions.create", "", ""),
          Call("groq.chat.completions.create", "", "") >>)
  /\ pc' = "groq"

\* fetchGitHubData returns and POST calls analyzeWithGroq, which sends the
\* chat completion request (route.ts lines 27-30, groq.ts up to the create call).
Return(reposNow, tree, readme) ==
  /\ githubData' = Some(Bundle(reposNow, tree, readme))
  /\ issued' = Issue(issued, Call("groq.chat.completions.create", "", ""))
  /\ pc' = "groq"

\* a join that is over as soon as one task has finished
AfterFanoutFirstDone ==
  /\ pc = "fanout"
  /\ tasks = <<>> \/ \E i \in 1..Len(tasks) : tasks[i].pc = "done"
  /\ LET sorted == SortRepos(repos)
     IN  /\ repos' = sorted
         /\ IF Len(sorted) = 0
            THEN /\ Return(sorted, topRepoTree, topRepoReadme)
            ELSE IF WantsTopTree(codeQuality, sorted[1].name)
            THEN /\ issued' = Issue(issued, Call("repos.get", sorted[1].name, ""))
                 /\ pc' = "deepInfo"
                 /\ UNCHANGED githubData
            ELSE /\ issued' =
                      Issue(issued, Call("repos.getReadme", sorted[1].name, "raw"))
                 /\ pc' = "deepReadme"
                 /\ UNCHANGED githubData
  /\ UNCHANGED <<parked, env, failures, thrown, response, sanitizedUsername,
                 profileVars, listingVars, languageStats, langPending,
                 commitActivity, codeQuality, tasks, deepVars, analysis>>

\* a join that never completes once a call of a task has failed
AfterFanoutUnlessFailed ==
  /\ pc = "fanout"
  /\ \A i \in 1..Len(tasks) : tasks[i].pc = "done"
  /\ ~\E f \in failures : f.stage = "ranked"
  /\ LET sorted == SortRepos(repos)
     IN  /\ repos' = sorted
         /\ IF Len(sorted) = 0
            THEN /\ Return(sorted, topRepoTree, topRepoReadme)
            ELSE IF WantsTopTree(codeQuality, sorted[1].name)
            THEN /\ issued' = Issue(issued, Call("repos.get", sorted[1].name, ""))
                 /\ pc' = "deepInfo"
                 /\ UNCHANGED githubData
            ELSE /\ issued' =
                      Issue(issued, Call("repos.getReadme", sorted[1].name, "raw"))
                 /\ pc' = "deepReadme"
                 /\ UNCHANGED githubData
  /\ UNCHANGED <<parked, env, failures, thrown, response, sanitizedUsername,
                 profileVars, listingVars, languageStats, langPending,
                 commitActivity, codeQuality, tasks, deepVars, analysis>>

\* github.ts lines 276-316: the fan-out join completed; repos is re-sorted
\* and the deep dive starts with repos.get when the top repository's quality
\* record lists directories, with the raw README otherwise; with no
\* repository at all the bundle is returned.
AfterFanout ==
  /\ pc = "fanout"
  /\ \A i \in 1..Len(tasks) : tasks[i].pc = "done"
  /\ LET sorted == SortRepos(repos)
     IN  /\ repos' = sorted
         /\ IF Len(sorted) = 0
            THEN /\ Return(sorted, topRepoTree, topRepoReadme)
            ELSE IF WantsTopTree(codeQuality, sorted[1].name)
            THEN /\ issued' = Issue(issued, Call("repos.get", sorted[1].name, ""))
                 /\ pc' = "deepInfo"
                 /\ UNCHANGED githubData
            ELSE /\ issued' =
                      Issue(issued, Call("repos.getReadme", sorted[1].name, "raw"))
                 /\ pc' = "deepReadme"
                 /\ UNCHANGED githubData
  /\ UNCHANGED <<parked, env, failures, thrown, response, sanitizedUsername,
                 profileVars, listingVars, languageStats, langPending,
                 commitActivity, codeQuality, tasks, deepVars, analysis>>

\* github.ts lines 290-316: the deep dive's repos.get answered.
DeepInfoDone ==
  /\ pc = "deepInfo"
  /\ \E outcome \in Outcomes("deep", repos[1].name) :
       IF outcome = "ok"
       THEN /\ issued' = Issue(issued, Call("git.getTree", repos[1].name, ""))
            /\ pc' = "deepTree"
            /\ UNCHANGED <<topRepoTree, failures>>
       ELSE /\ topRepoTree' = Null
            /\ failures' =
                 Logged(outcome, TRUE, "deep", Call("repos.get", repos[1].name, ""))
            /\ issued' =
                 Issue(issued, Call("repos.getReadme", repos[1].name, "raw"))
            /\ pc' = "deepReadme"
  /\ UNCHANGED <<parked, env, thrown, response, sanitizedUsername, profileVars,
                 listingVars, languageStats, langPending, fanoutVars,
                 topRepoReadme, githubData, analysis>>

\* github.ts lines 294-316: the deep dive's git.getTree answered.
DeepTreeDone ==
  /\ pc = "deepTree"
  /\ LET tree == RepoData(repos[1].name).tree
     IN  \E outcome \in OutcomesIf(tree # Null, "deep", repos[1].name) :
           /\ topRepoTree' =
                IF outcome = "ok" THEN Some(TopTreeOf(tree[1])) ELSE Null
           /\ failures' =
                Logged(outcome, tree # Null, "deep",
                       Call("git.getTree", repos[1].name, ""))
  /\ issued' = Issue(issued, Call("repos.getReadme", repos[1].name, "raw"))
  /\ pc' = "deepReadme"
  /\ UNCHANGED <<parked, env, thrown, response, sanitizedUsername, profileVars,
                 listingVars, languageStats, langPending, fanoutVars,
                 topRepoReadme, githubData, analysis>>

\* github.ts lines 311-331: the raw README answered; the bundle is returned.
DeepReadmeDone ==
  /\ pc = "deepReadme"
  /\ LET name == repos[1].name
         readme == RepoData(name).readme
     IN  \E outcome \in OutcomesIf(readme # Null, "deep", name) :
           LET content == IF outcome = "ok"
                          THEN Some(TopReadmeOf(name, readme[1]))
                          ELSE Null
           IN  /\ topRepoReadme' = content
               /\ failures' =
                    Logged(outcome, readme # Null, "deep",
                           Call("repos.getReadme", name, "raw"))
               /\ Return(repos, topRepoTree, content)
  /\ UNCHANGED <<parked, env, thrown, response, sanitizedUsername, profileVars,
                 listingVars, languageStats, langPending, fanoutVars,
                 topRepoTree, analysis>>

\* ------------------------------------------------------------------------
\* analyzeWithGroq and the success response of POST
\* ------------------------------------------------------------------------

\* a response body with the two totals exchanged
SuccessBodySwapped(data, critique) ==
  [ user |-> data.user, repos |-> data.repos, analysis |-> critique,
    commitActivity |-> data.commitActivity, codeQuality |-> data.codeQuality,
    languageStats |-> data.languageStats, totalStars |-> data.totalForks,
    totalForks |-> data.totalStars, accountAgeDays |-> data.accountAgeDays ]

\* route.ts lines 32-42: the body of the 200 response
SuccessBody(data, critique) ==
  [ user |-> data.user, repos |-> data.repos, analysis |-> critique,
    commitActivity |-> data.commitActivity, codeQuality |-> data.codeQuality,
    languageStats |-> data.languageStats, totalStars |-> data.totalStars,
    totalForks |-> data.totalForks, accountAgeDays |-> data.accountAgeDays ]

\* groq.ts from the completion on, route.ts lines 30-56: the LLM call
\* answered or failed; the critique is validated and clamped and the response
\* is sent.
GroqDone ==
  /\ pc = "groq"
  /\ \/ /\ Fail(ConnectionError)
        /\ failures' = failures \cup
             {Failure("groq", Call("groq.chat.completions.create", "", ""), Null)}
        /\ UNCHANGED analysis
     \/ LET result == AnalyzeContent(env.llm)
        IN  /\ UNCHANGED failures
            /\ IF result.ok
               THEN /\ analysis' = Some(result.value)
                    /\ response' =
                         Respond(200, SuccessBody(githubData[1], result.value))
                    /\ pc' = "done"
                    /\ UNCHANGED thrown
               ELSE /\ Fail(result.error)
                    /\ UNCHANGED analysis
  /\ UNCHANGED <<parked, env, issued, sanitizedUsername, profileVars, listingVars,
                 languageStats, langPending, fanoutVars, deepVars, githubData>>

\* ------------------------------------------------------------------------
\* Specification
\* ------------------------------------------------------------------------

Next ==
  \/ Validate
  \/ ProfileDone
  \/ ListingDone
  \/ LanguagesDone
  \/ AfterLanguages
  \/ ReadmeDone
  \/ CommitsDone
  \/ InfoDone
  \/ TreeDone
  \/ AfterFanout
  \/ DeepInfoDone
  \/ DeepTreeDone
  \/ DeepReadmeDone
  \/ GroqDone

Spec == Init /\ [][Next]_vars

\* The worlds of the fair specification: the request bodies that are no
\* string, one repository any call of which may fail, under a good and an
\* empty answer of the LLM, the long listing with the calls of its top-ranked
\* repository failing, and two repositories answered in any order with any
\* call of the ranked stage for the first failing.
LiveEnvs ==
  {World(b, <<>>, {}, FALSE, GoodContent) : b \in OtherBodies}
  \cup {World(PlainBody, OneRepo, Stages \X {"r1"}, FALSE, GoodContent),
        World(PlainBody, OneRepo, {}, FALSE, EmptyContent),
        World(PlainBody, WideListing, Stages \X {RepoNames[WideRepos]}, TRUE,
              GoodContent)}
  \cup {World(PlainBody, l, {"ranked"} \X {"r1"}, FALSE, GoodContent) :
          l \in {x \in Listings : Len(x) = 2}}

InitLive == Init /\ env \in LiveEnvs

\* Every issued call is eventually answered (with success or failure), so a
\* step that can be taken is eventually taken.
FairSpec == InitLive /\ [][Next]_vars /\ WF_vars(Next)

\* ------------------------------------------------------------------------
\* Several requests in one process
\* ------------------------------------------------------------------------

\* The requests of the scenario: one served while no other is in the process,
\* then two served at the same time.
Requests == {"alone", "first", "second"}

\* Everything one call of POST holds: its own locals and those of the
\* fetchGitHubData and analyzeWithGroq calls it makes, with the world it runs
\* against and its logs.
HandlerState ==
  [ env |-> env, pc |-> pc, issued |-> issued, failures |-> failures,
    thrown |-> thrown, response |-> response,
    sanitizedUsername |-> sanitizedUsername, user |-> user,
    accountAgeDays |-> accountAgeDays, allRepos |-> allRepos,
    sortedRepos |-> sortedRepos, totalStars |-> totalStars,
    totalForks |-> totalForks, languageStats |-> languageStats,
    langPending |-> langPending, repos |-> repos,
    commitActivity |-> commitActivity, codeQuality |-> codeQuality,
    tasks |-> tasks, topRepoTree |-> topRepoTree,
    topRepoReadme |-> topRepoReadme, githubData |-> githubData,
    analysis |-> analysis ]

\* The state of a call of POST that is about to run, against a world.
StartOf(world) ==
  [ env |-> world, pc |-> "start", issued |-> <<>>, failures |-> {},
    thrown |-> Null, response |-> Null, sanitizedUsername |-> <<>>,
    user |-> Null, accountAgeDays |-> 0, allRepos |-> <<>>,
    sortedRepos |-> <<>>, totalStars |-> 0, totalForks |-> 0,
    languageStats |-> <<>>, langPending |-> {}, repos |-> <<>>,
    commitActivity |-> <<>>, codeQuality |-> <<>>, tasks |-> <<>>,
    topRepoTree |-> Null, topRepoReadme |-> Null, githubData |-> Null,
    analysis |-> Null ]

\* the running handler is the one whose state is s
Running(s) ==
  /\ env = s.env
  /\ pc = s.pc
  /\ issued = s.issued
  /\ failures = s.failures
  /\ thrown = s.thrown
  /\ response = s.response
  /\ sanitizedUsername = s.sanitizedUsername
  /\ user = s.user
  /\ accountAgeDays = s.accountAgeDays
  /\ allRepos = s.allRepos
  /\ sortedRepos = s.sortedRepos
  /\ totalStars = s.totalStars
  /\ totalForks = s.totalForks
  /\ languageStats = s.languageStats
  /\ langPending = s.langPending
  /\ repos = s.repos
  /\ commitActivity = s.commitActivity
  /\ codeQuality = s.codeQuality
  /\ tasks = s.tasks
  /\ topRepoTree = s.topRepoTree
  /\ topRepoReadme = s.topRepoReadme
  /\ githubData = s.githubData
  /\ analysis = s.analysis

\* The callback that runs next finds the locals of its own call.
Load(s) ==
  /\ env' = s.env
  /\ pc' = s.pc
  /\ issued' = s.issued
  /\ failures' = s.failures
  /\ thrown' = s.thrown
  /\ response' = s.response
  /\ sanitizedUsername' = s.sanitizedUsername
  /\ user' = s.user
  /\ accountAgeDays' = s.accountAgeDays
  /\ allRepos' = s.allRepos
  /\ sortedRepos' = s.sortedRepos
  /\ totalStars' = s.totalStars
  /\ totalForks' = s.totalForks
  /\ languageStats' = s.languageStats
  /\ langPending' = s.langPending
  /\ repos' = s.repos
  /\ commitActivity' = s.commitActivity
  /\ codeQuality' = s.codeQuality
  /\ tasks' = s.tasks
  /\ topRepoTree' = s.topRepoTree
  /\ topRepoReadme' = s.topRepoReadme
  /\ githubData' = s.githubData
  /\ analysis' = s.analysis

\* an accumulator declared once for the module: the callback would find it
\* as the callback before left it
ResumeSharingLanguageMap(s) ==
  Load([s EXCEPT !.languageStats = languageStats])

Resume(s) == Load(s)

\* the request whose callback runs
Current == CHOOSE r \in Requests : r \notin DOMAIN parked

\* The state of a request's call of POST
StateOf(r) == IF r = Current THEN HandlerState ELSE parked[r]

\* The event loop runs a callback of another request r: the call running
\* until now stays suspended at its await (or has returned), r's call goes on
\* from where it was.
Switch(r) ==
  /\ r \in DOMAIN parked
  /\ parked[r].pc # "done"
  /\ parked' = [q \in (DOMAIN parked \ {r}) \cup {Current} |->
                  IF q = Current THEN HandlerState ELSE parked[q]]
  /\ Resume(parked[r])

\* The request served alone has been answered before the two others arrive.
OtherRequest ==
  /\ Current = "alone" => pc = "done"
  /\ \E r \in DOMAIN parked : Switch(r)

\* Worlds whose answers leave one outcome only once it is known which calls
\* failed: one repository.
SoloEnvs == {World(PlainBody, OneRepo, {}, FALSE, GoodContent)}

\* The worlds of the request served next to the compared one: the same, and
\* two repositories answered in any order.
PeerEnvs ==
  SoloEnvs
  \cup {World(PlainBody, l, {}, FALSE, GoodContent) :
          l \in {x \in Listings : Len(x) = 2}}

InitTwo ==
  \E w1 \in SoloEnvs, w2 \in PeerEnvs :
    /\ Running(StartOf(w1))
    /\ parked = [r \in {"first", "second"} |->
                   IF r = "first" THEN StartOf(w1) ELSE StartOf(w2)]

NextTwo ==
  \/ Validate
  \/ ProfileDone
  \/ ListingDone
  \/ LanguagesDone
  \/ AfterLanguages
  \/ ReadmeDone
  \/ CommitsDone
  \/ InfoDone
  \/ TreeDone
  \/ AfterFanout
  \/ DeepInfoDone
  \/ DeepTreeDone
  \/ DeepReadmeDone
  \/ GroqDone
  \/ OtherRequest

SpecTwo == InitTwo /\ [][NextTwo]_vars

\* ------------------------------------------------------------------------
\* Properties
\* ------------------------------------------------------------------------

ProfileCall == Call("users.getByUsername", "", "")

GroqCall == Call("groq.chat.completions.create", "", "")

\* fetchGitHubData was called and threw.
FetchFailed ==
  /\ ProfileCall \in DOMAIN issued
  /\ thrown # Null
  /\ githubData = Null

\* C1: fetchGitHubData fails only when the profile call failed; the failure of
\* any later call of the request never makes it fail.
C1_OnlyProfileFailureFails ==
  FetchFailed => \E f \in failures : f.stage = "profile"

\* C2: the repos list of every returned bundle has at most 6 entries and is
\* sorted by stargazers_count in non-increasing order, whatever the order in
\* which the per-repository fetches were answered.
C2_ReposRankedAndSorted ==
  githubData # Null =>
    LET r == githubData[1].repos
    IN  /\ Len(r) <= 6
        /\ \A i \in 1..(Len(r) - 1) :
             r[i].stargazers_count >= r[i + 1].stargazers_count

\* A bundle of six ranked repositories out of more, whose records were
\* completed in another order than the ranking.
C2_Witness ==
  /\ githubData # Null
  /\ Len(allRepos) > 6
  /\ Len(githubData[1].repos) = 6
  /\ githubData[1].repos[1].stargazers_count
       > githubData[1].repos[6].stargazers_count
  /\ commitActivity[1].repo # githubData[1].repos[1].name

\* C3: when the profile call reports 404, fetchGitHubData fails with a
\* GitHubNotFoundError whose message contains the sanitized identifier, and no
\* other remote call (repository or LLM) is issued; a profile failure with any
\* other status propagates as the error it is, not as NotFound.
C3_NotFoundOnlyFor404 ==
  \A f \in failures :
    f.stage = "profile" =>
      /\ thrown # Null
      /\ githubData = Null
      /\ DOMAIN issued = {ProfileCall}
      /\ IF f.status = Some(404)
         THEN /\ thrown[1].name = "GitHubNotFoundError"
              /\ sanitizedUsername # <<>>
              /\ Includes(thrown[1].message, sanitizedUsername)
         ELSE /\ thrown[1].name = "HttpError"
              /\ thrown[1].status = f.status

\* A 404 for an identifier that sanitization changed.
C3_Witness ==
  /\ pc = "done"
  /\ \E f \in failures : f.stage = "profile" /\ f.status = Some(404)
  /\ env.body.username.v[1] # sanitizedUsername
  /\ sanitizedUsername # <<>>

\* The listing entries that are not forks, and their star and fork counts.
ListedNonForks == {i \in 1..Len(env.listing) : ~env.listing[i].fork}

ListedCount(i, field) ==
  IF i \in ListedNonForks /\ env.listing[i][field] # Null
  THEN env.listing[i][field][1]
  ELSE 0

\* C4: in every returned bundle totalStars and totalForks are the sums of the
\* star and fork counts over all non-fork repositories of the listing, not
\* over the ranked subset, whatever later fetch failed.
C4_TotalsOverAllNonForks ==
  githubData # Null =>
    /\ githubData[1].totalStars =
         Sum([i \in 1..Len(env.listing) |-> ListedCount(i, "stargazers_count")])
    /\ githubData[1].totalForks =
         Sum([i \in 1..Len(env.listing) |-> ListedCount(i, "forks_count")])

\* A bundle from a listing with a starred fork and more than six non-forks,
\* whose totals exceed those of its ranked repositories, after a fetch failed.
C4_Witness ==
  /\ githubData # Null
  /\ Cardinality(ListedNonForks) > 6
  /\ \E i \in 1..Len(env.listing) :
       env.listing[i].fork /\ env.listing[i].stargazers_count # Some(0)
  /\ LET r == githubData[1].repos
     IN  /\ githubData[1].totalStars
              > Sum([i \in 1..Len(r) |-> r[i].stargazers_count])
         /\ githubData[1].totalForks > Sum([i \in 1..Len(r) |-> r[i].forks_count])
  /\ \E f \in failures : f.stage = "ranked"

\* The ranked-stage failures of the tree step (repos.get, git.getTree).
TreeStepFailures ==
  {f \in failures :
     f.stage = "ranked" /\ f.call[1] \in {"repos.get", "git.getTree"}}

\* All ten flags false, no files, no directories.
IsBlankQuality(q) ==
  /\ ~q.hasCI /\ ~q.hasTests /\ ~q.hasDocs /\ ~q.hasLinting
  /\ ~q.hasGitignore /\ ~q.hasContributing /\ ~q.hasChangelog
  /\ ~q.hasDotGithub /\ ~q.hasEnvExample /\ ~q.hasDockerfile
  /\ q.fileCount = 0
  /\ q.directoryStructure = <<>>

\* C5: when repos.get or git.getTree of a ranked repository fails, that
\* repository's CodeQualitySignals record has all ten flags false, fileCount 0
\* and an empty directoryStructure, and the failure is not propagated:
\* fetchGitHubData still returns its bundle.
C5_TreeFailureGivesPlaceholder ==
  \A f \in TreeStepFailures :
    /\ \E i \in 1..Len(codeQuality) :
         /\ codeQuality[i].repo = f.call[2]
         /\ IsBlankQuality(codeQuality[i])
         /\ \A j \in 1..Len(codeQuality) :
              codeQuality[j].repo = f.call[2] => j = i
    /\ thrown # Null => githubData # Null
    /\ pc \in {"groq", "done"} => githubData # Null
    /\ githubData # Null =>
         \E i \in 1..Len(githubData[1].codeQuality) :
           /\ githubData[1].codeQuality[i].repo = f.call[2]
           /\ IsBlankQuality(githubData[1].codeQuality[i])

\* A request answered 200 although the tree listing of a repository that has
\* files and directories failed.
C5_Witness ==
  /\ pc = "done"
  /\ response[1].status = 200
  /\ \E f \in TreeStepFailures :
       /\ f.call[1] = "git.getTree"
       /\ ~IsBlankQuality(QualityRecord(f.call[2], RepoData(f.call[2]).tree[1]))

\* C6: whatever the raw answer carried, the returned Critique has score an
\* integer in 0..100 and the four sub-scores integers in 0..10.
C6_ScoresAreBoundedIntegers ==
  analysis # Null =>
    /\ IsIntegerIn(Get(analysis[1], "score"), 0, 100)
    /\ \A f \in ScoreFields \ {"score"} :
         IsIntegerIn(Get(analysis[1], f), 0, 10)

BundleFields ==
  {"user", "repos", "topRepoTree", "topRepoReadme", "commitActivity",
   "codeQuality", "languageStats", "totalStars", "totalForks", "accountAgeDays"}

\* C7 as claimed: the 200 response carries every field of the bundle, with the
\* bundle's value, and the critique.
C7_ResponseHasEveryBundleField ==
  (response # Null /\ response[1].status = 200) =>
    /\ \A k \in BundleFields :
         /\ k \in DOMAIN response[1].body
         /\ response[1].body[k] = githubData[1][k]
    /\ response[1].body.analysis = analysis[1]

\* C7 as amended: the 200 response carries user, repos, commitActivity,
\* codeQuality, languageStats, totalStars, totalForks and accountAgeDays with
\* the values fetchGitHubData computed, and the Critique under the key
\* analysis; topRepoTree and topRepoReadme are not in it.  Every field of the
\* LLM's answer other than the five scores that is not null is in the
\* Critique as answered.
C7_ResponseMergesAllButTopRepo ==
  (response # Null /\ response[1].status = 200) =>
    LET body == response[1].body
        raw == env.llm.value.v[1]
    IN  /\ DOMAIN body = (BundleFields \ {"topRepoTree", "topRepoReadme"})
                           \cup {"analysis"}
        /\ body.user = user[1]
        /\ body.repos = repos
        /\ body.commitActivity = commitActivity
        /\ body.codeQuality = codeQuality
        /\ body.languageStats = languageStats
        /\ body.totalStars = totalStars
        /\ body.totalForks = totalForks
        /\ body.accountAgeDays = accountAgeDays
        /\ analysis # Null
        /\ body.analysis = analysis[1]
        /\ \A k \in DOMAIN raw \ ScoreFields :
             raw[k].t # "null" => Get(body.analysis, k) = raw[k]

\* A 200 response for a bundle whose top-repository tree and README were
\* fetched and whose two totals differ.
C7_Witness ==
  /\ response # Null
  /\ response[1].status = 200
  /\ githubData[1].topRepoTree # Null
  /\ githubData[1].topRepoReadme # Null
  /\ Len(githubData[1].repos) > 1
  /\ totalStars # totalForks

SortedNames == {sortedRepos[i].name : i \in 1..Len(sortedRepos)}

RankedFailed(name, endpoints) ==
  \E f \in failures :
    f.stage = "ranked" /\ f.call[1] \in endpoints /\ f.call[2] = name

\* The CommitActivity of a repository, from what GitHub holds for it and
\* whether one of its listCommits calls failed.
CommitsFetched(name) ==
  IF RankedFailed(name, {"repos.listCommits"})
  THEN [repo |-> name, totalCommits |-> 0, recentCommits |-> 0,
        lastCommitDate |-> Null]
  ELSE CommitRecord(name, LatestCommits(name), RecentCommits(name))

\* The directories and the number of files GitHub holds for a repository.
DirsHeld(name) == PathsOfType(RepoData(name).tree[1], "tree")

FilesHeld(name) ==
  Cardinality({j \in 1..Len(RepoData(name).tree[1]) :
                 RepoData(name).tree[1][j].type = "blob"})

\* The record is the one the tree step produces for the repository it names:
\* blank if its repos.get or git.getTree call failed, and counting that
\* repository's files and directories otherwise.
QualityFetched(q) ==
  IF RankedFailed(q.repo, {"repos.get", "git.getTree"})
  THEN IsBlankQuality(q)
  ELSE /\ q.fileCount = FilesHeld(q.repo)
       /\ q.directoryStructure = DirsHeld(q.repo)
       /\ q.hasDockerfile = (q.repo = "r2")

\* The directories the ranked fan-out recorded for a repository.
DirsFetched(name) ==
  IF RankedFailed(name, {"repos.get", "git.getTree"})
  THEN <<>>
  ELSE DirsHeld(name)

AfterJoin == pc \in {"deepInfo", "deepTree", "deepReadme", "groq", "done"}

\* The deep dive asked for the top repository's tree.
DeepTreeWanted ==
  /\ Call("repos.get", repos[1].name, "") \in DOMAIN issued
  /\ issued[Call("repos.get", repos[1].name, "")] = 2

\* C8: in every order of completion each CommitActivity and CodeQualitySignals
\* record names the ranked repository whose fetches produced its values, and
\* the deep dive selects the top repository's quality record by that name.
C8_RecordsJoinedByName ==
  /\ \A i \in 1..Len(commitActivity) :
       /\ commitActivity[i].repo \in SortedNames
       /\ commitActivity[i] = CommitsFetched(commitActivity[i].repo)
  /\ \A i \in 1..Len(codeQuality) :
       /\ codeQuality[i].repo \in SortedNames
       /\ QualityFetched(codeQuality[i])
  /\ (AfterJoin /\ Len(repos) > 0) =>
       (DeepTreeWanted <=>
          DirsFetched(repos[1].name) # <<>>)

\* A bundle whose first quality record and first commit record are not the
\* top repository's, the top repository having directories and the first
\* record's repository none.
C8_Witness ==
  /\ githubData # Null
  /\ Len(repos) > 1
  /\ codeQuality[1].repo # repos[1].name
  /\ commitActivity[1].repo # repos[1].name
  /\ codeQuality[1].directoryStructure = <<>>
  /\ DeepTreeWanted

\* The request carries no usable username: its body is no JSON object, or
\* the username is missing, is no string, or has no character of [A-Za-z0-9-].
UnusableUsername ==
  \/ env.body.kind # "object"
  \/ env.body.username.t # "string"
  \/ \A i \in 1..Len(env.body.username.v[1]) :
       env.body.username.v[1][i] \notin AllowedChars

\* C9: a request whose username is missing, not a string, or empty after
\* trimming and stripping is answered 400 and issues no remote call.
C9_UnusableUsernameIs400 ==
  UnusableUsername =>
    /\ DOMAIN issued = {}
    /\ pc = "done" => response[1].status = 400

ThrownNotFound == thrown # Null /\ thrown[1].name = "GitHubNotFoundError"

\* C10: POST answers 404 exactly when fetchGitHubData failed with
\* GitHubNotFoundError, with that error's message; every other failure after
\* input validation is answered 500 with the fixed generic message, which
\* shares no text with the underlying error.
C10_OnlyNotFoundIsDistinguished ==
  pc = "done" =>
    /\ response[1].status = 404 <=> ThrownNotFound
    /\ ThrownNotFound <=>
         \E f \in failures : f.stage = "profile" /\ f.status = Some(404)
    /\ ThrownNotFound => response[1].body.error = thrown[1].message
    /\ (thrown # Null /\ ~ThrownNotFound /\ ProfileCall \in DOMAIN issued) =>
         /\ response[1].status = 500
         /\ response[1].body.error =
              <<"Failed to analyze profile. Please try again.">>
         /\ SeqRange(response[1].body.error) \cap SeqRange(thrown[1].message) = {}

\* A 500 for an answer of the LLM that violates the schema, after the bundle
\* was fetched.
C10_Witness ==
  /\ pc = "done"
  /\ response[1].status = 500
  /\ githubData # Null
  /\ thrown[1].message = <<"Groq response did not match expected schema">>

\* The LLM answered the request's one completion call.
GroqAnswered ==
  /\ pc = "done"
  /\ GroqCall \in DOMAIN issued
  /\ ~\E f \in failures : f.stage = "groq"

IsStringList(v) ==
  /\ v.t = "array"
  /\ \A i \in 1..Len(v.v) : v.v[i].t = "string"

\* The content is empty, is no JSON, or lacks a required field of the declared
\* shape: score and readme_score numbers, headline a string, red_flags,
\* green_flags and improvement_plan arrays of strings.
ContentOutOfShape(content) ==
  \/ content.kind # "json"
  \/ content.value.t # "object"
  \/ Get(content.value, "score").t # "number"
  \/ Get(content.value, "readme_score").t # "number"
  \/ Get(content.value, "headline").t # "string"
  \/ \E f \in {"red_flags", "green_flags", "improvement_plan"} :
       ~IsStringList(Get(content.value, f))

\* C11: analyzeWithGroq returns no Critique exactly when the LLM content is
\* empty, does not parse as JSON, or has a required field absent or of the
\* wrong shape (the three lists being arrays of strings).
C11_FailsExactlyWhenOutOfShape ==
  GroqAnswered => (analysis = Null <=> ContentOutOfShape(env.llm))

\* The repo names of a list of records, and whether none occurs twice.
RepoNamesIn(list) == {list[i].repo : i \in 1..Len(list)}

EntryNamesIn(list) == {list[i].name : i \in 1..Len(list)}

\* C12: in every returned bundle commitActivity and codeQuality hold exactly
\* one record per ranked repository: the names in repos, in commitActivity and
\* in codeQuality are the same set and none occurs twice in its list,
\* whichever per-repository fetches failed.
C12_OneRecordPerRankedRepo ==
  githubData # Null =>
    LET b == githubData[1]
    IN  /\ EntryNamesIn(b.repos) = EntryNamesIn(sortedRepos)
        /\ RepoNamesIn(b.commitActivity) = EntryNamesIn(b.repos)
        /\ RepoNamesIn(b.codeQuality) = EntryNamesIn(b.repos)
        /\ Cardinality(EntryNamesIn(b.repos)) = Len(b.repos)
        /\ Len(b.commitActivity) = Len(b.repos)
        /\ Len(b.codeQuality) = Len(b.repos)

\* A bundle of several repositories in which a commit call of one and the
\* tree step of one failed, and commitActivity is not in the order of repos.
C12_Witness ==
  /\ githubData # Null
  /\ Len(githubData[1].repos) > 1
  /\ \E f \in failures : f.stage = "ranked" /\ f.call[1] = "repos.listCommits"
  /\ TreeStepFailures # {}
  /\ githubData[1].commitActivity[1].repo # githubData[1].repos[1].name

\* The repositories the listing marks as forks.
ListedForks ==
  {env.listing[i].name :
     i \in {j \in 1..Len(env.listing) : env.listing[j].fork}}

ListedOrZero(i, field) ==
  IF env.listing[i][field] # Null THEN env.listing[i][field][1] ELSE 0

ForkCount(i, field) ==
  IF env.listing[i].fork THEN ListedOrZero(i, field) ELSE 0

\* C13: a repository the listing marks as a fork never counts in totalStars
\* or totalForks, never appears in repos, commitActivity or codeQuality, and
\* never has a languages, README, commit, repos.get or tree call issued for it.
C13_ForksExcluded ==
  /\ \A c \in DOMAIN issued : c[2] \notin ListedForks
  /\ EntryNamesIn(allRepos) \cap ListedForks = {}
  /\ EntryNamesIn(sortedRepos) \cap ListedForks = {}
  /\ EntryNamesIn(repos) \cap ListedForks = {}
  /\ RepoNamesIn(commitActivity) \cap ListedForks = {}
  /\ RepoNamesIn(codeQuality) \cap ListedForks = {}
  /\ githubData # Null =>
       /\ EntryNamesIn(githubData[1].repos) \cap ListedForks = {}
       /\ githubData[1].totalStars + Sum([i \in 1..Len(env.listing) |->
                                            ForkCount(i, "stargazers_count")])
            = Sum([i \in 1..Len(env.listing) |->
                     ListedOrZero(i, "stargazers_count")])
       /\ githubData[1].totalForks + Sum([i \in 1..Len(env.listing) |->
                                            ForkCount(i, "forks_count")])
            = Sum([i \in 1..Len(env.listing) |-> ListedOrZero(i, "forks_count")])

\* A bundle for a listing whose fork has more stars than any repository in
\* repos and has been forked itself.
C13_Witness ==
  /\ githubData # Null
  /\ Len(githubData[1].repos) > 1
  /\ \E i \in 1..Len(env.listing) :
       /\ env.listing[i].fork
       /\ ForkCount(i, "forks_count") > 0
       /\ ForkCount(i, "stargazers_count") > githubData[1].repos[1].stargazers_count

GroqInvoked == GroqCall \in DOMAIN issued

\* C14: within one request the LLM is invoked at most once and only after
\* fetchGitHubData has returned a complete bundle; a request that ends in 400
\* or 404 or in a failure of fetchGitHubData never invokes it; and a 200
\* response is sent only when both fetchGitHubData and analyzeWithGroq
\* succeeded.
C14_LlmOnceAfterBundle ==
  /\ GroqInvoked =>
       /\ issued[GroqCall] = 1
       /\ githubData # Null
       /\ DOMAIN githubData[1] = BundleFields
       /\ langPending = {}
       /\ \A t \in 1..Len(tasks) : tasks[t].pc = "done"
  /\ (pc = "done" /\ response[1].status \in {400, 404}) => ~GroqInvoked
  /\ (thrown # Null /\ githubData = Null) => ~GroqInvoked
  /\ (response # Null /\ response[1].status = 200) =>
       /\ GroqInvoked
       /\ githubData # Null
       /\ analysis # Null
       /\ thrown = Null
       /\ ~\E f \in failures : f.stage \in {"profile", "listing", "groq"}

\* A 200 response after one invocation of the LLM, for a profile with
\* repositories some of whose fetches failed.
C14_Witness ==
  /\ response # Null
  /\ response[1].status = 200
  /\ issued[GroqCall] = 1
  /\ Len(githubData[1].repos) > 0
  /\ \E f \in failures : f.stage \in {"ranked", "languages", "deep"}

TextAndLists == {"headline", "red_flags", "green_flags", "improvement_plan"}

\* The parsed content has the types the validation asks for.
ContentAccepted(content) ==
  /\ content.kind = "json"
  /\ content.value.t = "object"
  /\ Get(content.value, "score").t = "number"
  /\ Get(content.value, "readme_score").t = "number"
  /\ Get(content.value, "headline").t = "string"
  /\ \A f \in TextAndLists \ {"headline"} : Get(content.value, f).t = "array"

\* C15: for every accepted LLM response the Critique carries headline,
\* red_flags, green_flags and improvement_plan as parsed; a list of more than
\* six entries is neither rejected nor truncated.
C15_TextAndListsUnchanged ==
  (GroqAnswered /\ ContentAccepted(env.llm)) =>
    /\ analysis # Null
    /\ \A f \in TextAndLists : Get(analysis[1], f) = Get(env.llm.value, f)

\* A Critique returned with a list of seven entries.
C15_Witness ==
  /\ GroqAnswered
  /\ analysis # Null
  /\ \E f \in TextAndLists \ {"headline"} : Len(Get(analysis[1], f).v) = 7

\* The listing entry of a ranked repository.
RankedEntry(name) ==
  sortedRepos[CHOOSE j \in 1..Len(sortedRepos) : sortedRepos[j].name = name]

\* C16: in the ranked fan-out each repository's repos entry, CommitActivity
\* and CodeQualitySignals are what that repository's own fetches give,
\* whatever fetch of another repository failed, and the stage is over only
\* when every task has pushed all three of its records (never fail-fast).
C16_TasksIsolatedAndJoined ==
  /\ \A i \in 1..Len(repos) :
       /\ repos[i].name \in EntryNamesIn(sortedRepos)
       /\ repos[i] =
            RepoEntry(RankedEntry(repos[i].name),
                      /\ RepoData(repos[i].name).readme # Null
                      /\ ~RankedFailed(repos[i].name, {"repos.getReadme"}))
  /\ \A i \in 1..Len(commitActivity) :
       commitActivity[i] = CommitsFetched(commitActivity[i].repo)
  /\ \A i \in 1..Len(codeQuality) : QualityFetched(codeQuality[i])
  /\ AfterJoin =>
       /\ \A t \in 1..Len(tasks) : tasks[t].pc = "done"
       /\ Len(repos) = Len(sortedRepos)
       /\ Len(commitActivity) = Len(sortedRepos)
       /\ Len(codeQuality) = Len(sortedRepos)
  /\ (thrown # Null /\ \E f \in failures : f.stage = "ranked") =>
       githubData # Null

\* The fan-out is over for two repositories: the README, a commit call and
\* the tree step of one failed, and the other has its README, a commit and
\* its files and directories on record.
C16_Witness ==
  /\ AfterJoin
  /\ Len(sortedRepos) = 2
  /\ \E a, b \in EntryNamesIn(sortedRepos) :
       /\ a # b
       /\ RankedFailed(a, {"repos.getReadme"})
       /\ RankedFailed(a, {"repos.listCommits"})
       /\ RankedFailed(a, {"repos.get", "git.getTree"})
       /\ ~\E f \in failures : f.stage = "ranked" /\ f.call[2] = b
       /\ \E i \in 1..2 : repos[i].name = b /\ repos[i].has_readme
       /\ \E i \in 1..2 :
            commitActivity[i].repo = b /\ commitActivity[i].totalCommits = 1
       /\ \E i \in 1..2 :
            codeQuality[i].repo = b /\ codeQuality[i].directoryStructure # <<>>

\* The non-fork entries of the listing, in listing order, and those of the
\* first fifteen whose languages call did not fail.
ListedOwn == SelectSeq(env.listing, LAMBDA r : ~r.fork)

LanguageContributors ==
  {i \in 1..Len(ListedOwn) :
     /\ i <= 15
     /\ ~\E f \in failures :
          f.stage = "languages" /\ f.call[2] = ListedOwn[i].name}

BytesOf(i, lang) ==
  IF i \in LanguageContributors
       /\ lang \in DOMAIN RepoData(ListedOwn[i].name).languages
  THEN RepoData(ListedOwn[i].name).languages[lang]
  ELSE 0

CommitsHeld(name) == RepoData(name).commits

\* C18: if either listCommits call of a ranked repository fails, its
\* CommitActivity is the placeholder (0, 0, null), its repos entry and
\* CodeQualitySignals are as without that failure, and the bundle is still
\* returned; if both succeed, totalCommits is 1 if the first returned a commit
\* and 0 otherwise, recentCommits is the length of the second response, and
\* lastCommitDate is the date of the first response's commit or null.
C18_CommitFailureGivesPlaceholder ==
  /\ \A i \in 1..Len(commitActivity) :
       LET c == commitActivity[i]
       IN  IF RankedFailed(c.repo, {"repos.listCommits"})
           THEN /\ c.totalCommits = 0
                /\ c.recentCommits = 0
                /\ c.lastCommitDate = Null
           ELSE /\ c.totalCommits = (IF CommitsHeld(c.repo) = <<>> THEN 0 ELSE 1)
                /\ c.recentCommits = RepoData(c.repo).recent
                /\ c.lastCommitDate =
                     (IF CommitsHeld(c.repo) = <<>> THEN Null
                      ELSE CommitsHeld(c.repo)[1].date)
  /\ \A f \in failures :
       (f.stage = "ranked" /\ f.call[1] = "repos.listCommits") =>
         /\ \E i \in 1..Len(repos) :
              /\ repos[i].name = f.call[2]
              /\ repos[i].has_readme =
                   (/\ RepoData(f.call[2]).readme # Null
                    /\ ~RankedFailed(f.call[2], {"repos.getReadme"}))
         /\ \A i \in 1..Len(codeQuality) :
              codeQuality[i].repo = f.call[2] => QualityFetched(codeQuality[i])
         /\ thrown # Null => githubData # Null
         /\ pc \in {"groq", "done"} =>
              /\ githubData # Null
              /\ \E i \in 1..Len(githubData[1].commitActivity) :
                   /\ githubData[1].commitActivity[i].repo = f.call[2]
                   /\ githubData[1].commitActivity[i].totalCommits = 0
              /\ \E i \in 1..Len(githubData[1].codeQuality) :
                   githubData[1].codeQuality[i].repo = f.call[2]

\* A 200 response where only the since-30-days call of a repository with
\* commits failed, its README and tree were fetched, and another repository's
\* two calls succeeded.
C18_Witness ==
  /\ pc = "done"
  /\ response[1].status = 200
  /\ \E f \in failures :
       /\ f.stage = "ranked"
       /\ f.call = Call("repos.listCommits", f.call[2], "since")
       /\ CommitsHeld(f.call[2]) # <<>>
       /\ ~\E g \in failures : g.call = Call("repos.listCommits", f.call[2], "latest")
       /\ \E i \in 1..Len(repos) : repos[i].name = f.call[2] /\ repos[i].has_readme
       /\ \E i \in 1..Len(codeQuality) :
            codeQuality[i].repo = f.call[2] /\ codeQuality[i].fileCount > 0
  /\ \E i \in 1..Len(commitActivity) :
       ~RankedFailed(commitActivity[i].repo, {"repos.listCommits"})

\* The tree step of the ranked fan-out fetched a tree with at least one entry
\* for the repository.
TreeFetched(name) ==
  /\ ~RankedFailed(name, {"repos.get", "git.getTree"})
  /\ RepoData(name).tree # Null
  /\ RepoData(name).tree[1] # <<>>

\* C19: the bundle has a file listing of the top-ranked repository whenever
\* the tree fetched for that repository in the fan-out has at least one entry
\* (here: and no repos.get or git.getTree call of the deep dive failed).
C19_TopTreeWheneverTreeFetched ==
  (/\ githubData # Null
   /\ githubData[1].repos # <<>>
   /\ TreeFetched(githubData[1].repos[1].name)
   /\ ~\E f \in failures :
        f.stage = "deep" /\ f.call[1] \in {"repos.get", "git.getTree"}) =>
    githubData[1].topRepoTree # Null

\* C20: within one request repos.get and git.getTree are each issued at most
\* once per repository, the top-ranked one included.
C20_TreeFetchedOncePerRepo ==
  \A c \in DOMAIN issued :
    c[1] \in {"repos.get", "git.getTree"} => issued[c] <= 1

\* The paths of the files GitHub holds for a repository.
BlobPathsHeld(name) ==
  {RepoData(name).tree[1][j].path[1] :
     j \in {k \in 1..Len(RepoData(name).tree[1]) :
              RepoData(name).tree[1][k].type = "blob"}}

DeepFailed(name, endpoints) ==
  \E f \in failures :
    f.stage = "deep" /\ f.call[1] \in endpoints /\ f.call[2] = name

\* The bundle's fields other than the two of the deep dive are the values
\* the earlier stages computed.
RestOfBundleKept(b) ==
  /\ b.user = user[1]
  /\ b.repos = repos
  /\ b.commitActivity = commitActivity
  /\ b.codeQuality = codeQuality
  /\ b.languageStats = languageStats
  /\ b.totalStars = totalStars
  /\ b.totalForks = totalForks
  /\ b.accountAgeDays = accountAgeDays

\* C21: in every returned bundle topRepoTree is null or at most 50 blob
\* paths of repos[0], topRepoReadme is null or at most 3000 characters of the
\* README of repos[0], both are null when repos is empty, and a failed tree or
\* raw-README call of the deep dive nulls only its own field: the bundle is
\* still returned with every other field as computed.
C21_DeepDiveCappedAndOptional ==
  /\ githubData # Null =>
       LET b == githubData[1]
       IN  /\ b.repos = <<>> => b.topRepoTree = Null /\ b.topRepoReadme = Null
           /\ b.topRepoTree # Null =>
                /\ Len(b.topRepoTree[1]) <= 50
                /\ \A i \in 1..Len(b.topRepoTree[1]) :
                     b.topRepoTree[1][i] \in BlobPathsHeld(b.repos[1].name)
           /\ b.topRepoReadme # Null =>
                /\ b.topRepoReadme[1].of = b.repos[1].name
                /\ b.topRepoReadme[1].length <= 3000
                /\ b.topRepoReadme[1].length <= RepoData(b.repos[1].name).readme[1]
           /\ b.repos # <<>> =>
                /\ DeepFailed(b.repos[1].name, {"repos.get", "git.getTree"}) =>
                     b.topRepoTree = Null
                /\ DeepFailed(b.repos[1].name, {"repos.getReadme"}) =>
                     b.topRepoReadme = Null
                /\ (/\ DeepTreeWanted
                    /\ ~DeepFailed(b.repos[1].name, {"repos.get", "git.getTree"})) =>
                     b.topRepoTree # Null
                /\ ~DeepFailed(b.repos[1].name, {"repos.getReadme"}) =>
                     b.topRepoReadme # Null
           /\ RestOfBundleKept(b)
  /\ (\E f \in failures : f.stage = "deep") =>
       /\ thrown # Null => githubData # Null
       /\ pc \in {"groq", "done"} => githubData # Null

\* A bundle whose file listing has 50 of the more than 50 files of the top
\* repository, the raw README call having failed.
C21_Witness ==
  /\ githubData # Null
  /\ githubData[1].topRepoTree # Null
  /\ Len(githubData[1].topRepoTree[1]) = 50
  /\ Cardinality(BlobPathsHeld(githubData[1].repos[1].name)) > 50
  /\ DeepFailed(githubData[1].repos[1].name, {"repos.getReadme"})
  /\ githubData[1].topRepoReadme = Null

\* C22: once a call to an endpoint for a repository has failed, no further
\* call to that endpoint for that repository is issued within the request
\* (the README endpoint of the fan-out and of the deep dive being one
\* endpoint).
C22_NoCallAfterItsFailure ==
  [][\A f \in failures :
       \A c \in DOMAIN issued' :
         (c[1] = f.call[1] /\ c[2] = f.call[2] /\ c[2] # "") =>
           /\ c \in DOMAIN issued
           /\ issued'[c] = issued[c]]_vars

RankedEndpoints ==
  {"repos.getReadme", "repos.listCommits", "repos.get", "git.getTree"}

\* A call of the ranked fan-out, and a call of the deep dive (the raw README
\* call, or the second repos.get or git.getTree call for a repository).
RankedCallIssued ==
  \E c \in DOMAIN issued : c[1] \in RankedEndpoints /\ c[3] # "raw"

DeepCallIssued ==
  \E c \in DOMAIN issued : c[3] = "raw" \/ (c[1] \in RankedEndpoints /\ issued[c] > 1)

\* C23: the stages of a request are sequential: no repository call before
\* the profile is resolved, no ranked-repository fetch before every language
\* call is answered, no deep-dive call while a ranked task is unfinished, and
\* the critique call only after the deep dive is over.
C23_StagesSequential ==
  /\ (\E c \in DOMAIN issued : c # ProfileCall) => user # Null
  /\ (\E c \in DOMAIN issued : c[2] # "") =>
       \E c \in DOMAIN issued : c[1] = "repos.listForUser"
  /\ RankedCallIssued =>
       /\ langPending = {}
       /\ pc \notin {"start", "profile", "listing", "langs"}
  /\ DeepCallIssued =>
       /\ \A t \in 1..Len(tasks) : tasks[t].pc = "done"
       /\ Len(codeQuality) = Len(sortedRepos)
       /\ pc \in {"deepInfo", "deepTree", "deepReadme", "groq", "done"}
  /\ GroqInvoked =>
       /\ pc \in {"groq", "done"}
       /\ \A t \in 1..Len(tasks) : tasks[t].pc = "done"
       /\ repos # <<>> =>
            Call("repos.getReadme", repos[1].name, "raw") \in DOMAIN issued

\* The critique call is issued after language calls, a fan-out over several
\* repositories and a deep dive with a second tree fetch.
C23_Witness ==
  /\ GroqInvoked
  /\ DeepCallIssued
  /\ Len(sortedRepos) > 1
  /\ \E c \in DOMAIN issued : c[1] = "repos.listLanguages"
  /\ \E c \in DOMAIN issued : c[1] = "git.getTree" /\ issued[c] = 2

OptionalScores == {"code_quality_score", "consistency_score", "diversity_score"}

Verdicts == {"tech_stack_verdict", "commit_verdict"}

Absent(v) == v.t \in {"undefined", "null"}

\* C24: in the Critique of an accepted response an absent (missing or null)
\* code_quality_score, consistency_score or diversity_score is 5 and an absent
\* tech_stack_verdict or commit_verdict is "No assessment available."; a
\* score that is an integer of its range and a verdict that is a string are
\* returned as answered.
C24_DefaultsAndIdempotence ==
  (GroqAnswered /\ analysis # Null) =>
    LET raw == env.llm.value
        out == analysis[1]
    IN  /\ \A f \in OptionalScores :
             Absent(Get(raw, f)) => Get(out, f) = [t |-> "number", v |-> <<50>>]
        /\ \A f \in Verdicts :
             Absent(Get(raw, f)) =>
               Get(out, f) = [t |-> "string", v |-> <<"No assessment available.">>]
        /\ \A f \in ScoreFields :
             IsIntegerIn(Get(raw, f), 0, IF f = "score" THEN 100 ELSE 10) =>
               Get(out, f) = Get(raw, f)
        /\ \A f \in Verdicts :
             Get(raw, f).t = "string" => Get(out, f) = Get(raw, f)

\* A Critique for an answer that has none of its three optional scores and
\* both verdicts.
C24_Witness ==
  /\ GroqAnswered
  /\ analysis # Null
  /\ \A f \in OptionalScores : Get(env.llm.value, f).t = "undefined"
  /\ \A f \in Verdicts : Get(analysis[1], f) = Get(env.llm.value, f)

DocDirectoryNames ==
  { <<"d", "o", "c", "s">>, <<"d", "o", "c">>,
    <<"d", "o", "c", "u", "m", "e", "n", "t", "a", "t", "i", "o", "n">> }

\* The tree has a directory named docs, documentation or doc, in any case,
\* or a path inside one.
HasDocDirectory(tree) ==
  \E j \in 1..Len(tree) : \E d \in DocDirectoryNames :
    /\ tree[j].path # Null
    /\ \/ tree[j].type = "tree" /\ ToLowerCase(tree[j].path[1]) = d
       \/ StartsWith(ToLowerCase(tree[j].path[1]), d \o <<"/">>)

\* C25: hasDocs of a CodeQualitySignals record is true only if the tree
\* fetched for its repository contains a documentation directory.
C25_HasDocsOnlyWithDocDirectory ==
  \A i \in 1..Len(codeQuality) :
    codeQuality[i].hasDocs => HasDocDirectory(RepoData(codeQuality[i].repo).tree[1])

\* The list gained one record, at its end, for a task that has just left one
\* of the given positions.
PushedAtEnd(old, new, from) ==
  /\ Len(new) = Len(old) + 1
  /\ SubSeq(new, 1, Len(old)) = old
  /\ \E i \in 1..Len(tasks) :
       /\ tasks[i].pc \in from
       /\ tasks'[i].pc # tasks[i].pc
       /\ new[Len(new)].repo = sortedRepos[i].name

\* C26: commitActivity and codeQuality are in the order in which the tasks
\* completed their commit and tree steps and are never re-sorted: each only
\* ever gains a record at its end, when a task completes that step, and the
\* bundle carries both lists as they are.
C26_AuxListsInCompletionOrder ==
  [][/\ commitActivity' # commitActivity =>
          PushedAtEnd(commitActivity, commitActivity', {"commits"})
     /\ codeQuality' # codeQuality =>
          PushedAtEnd(codeQuality, codeQuality', {"info", "tree"})
     /\ githubData' # githubData =>
          /\ githubData'[1].commitActivity = commitActivity
          /\ githubData'[1].codeQuality = codeQuality]_vars

\* A bundle in which commitActivity and codeQuality are each in another order
\* than repos, and in another order than each other.
C26_Witness ==
  /\ githubData # Null
  /\ \E i \in 1..Len(githubData[1].repos) :
       githubData[1].commitActivity[i].repo # githubData[1].repos[i].name
  /\ \E i \in 1..Len(githubData[1].repos) :
       githubData[1].codeQuality[i].repo # githubData[1].repos[i].name
  /\ \E i \in 1..Len(githubData[1].repos) :
       githubData[1].codeQuality[i].repo # githubData[1].commitActivity[i].repo

\* The names of a list of listing entries or repos entries, in order.
NameOrder(list) == [i \in 1..Len(list) |-> list[i].name]

\* C28: for fixed remote responses the order of repos, and with it the top
\* repository of the deep dive, is the same in every order in which the
\* README probes are answered: it is the order of the ranking, which the
\* listing alone determines.
C28_ReposOrderDetermined ==
  githubData # Null => NameOrder(githubData[1].repos) = NameOrder(sortedRepos)

\* C30: in a bundle with a top repository, topRepoReadme is non-null only if
\* has_readme of repos[0] is true.
C30_TopReadmeAgreesWithFlag ==
  (githubData # Null /\ githubData[1].repos # <<>>) =>
    (githubData[1].topRepoReadme # Null => githubData[1].repos[1].has_readme)

Answered ==
  /\ pc = "done"
  /\ response # Null
  /\ response[1].status \in {200, 400, 404, 500}

\* C29: if every issued call is eventually answered, the request eventually
\* has a response, of status 200, 400, 404 or 500, and that response is its
\* only one; no failed sub-fetch leaves a join waiting.
C29_EveryRequestAnswered ==
  /\ <>[]Answered
  /\ [][response # Null => response' = response]_vars

\* A request answered after calls of the language sample, of the fan-out and
\* of the deep dive have failed.
C29_Witness ==
  /\ Answered
  /\ \E f \in failures : f.stage = "languages"
  /\ \E f \in failures : f.stage = "ranked" /\ f.status = Some(500)
  /\ \E f \in failures : f.stage = "deep"

\* The bundle and the response of a call of POST
Outcome(s) == <<s.githubData, s.response>>

\* Two calls of POST were given the same request and the same remote
\* responses: the same world, and the same calls failed in the same way.
SameAnswers(s, a) == s.env = a.env /\ s.failures = a.failures

\* C27: two requests served at the same time share no state: however the
\* completions of their remote calls interleave, each one's bundle and response
\* are those of the request served alone against the same remote responses.
C27_ConcurrentRequestsIsolated ==
  DOMAIN parked # {}
    => \A r \in {"first", "second"} :
         LET s == StateOf(r)
             a == StateOf("alone")
         IN  (s.pc = "done" /\ a.pc = "done" /\ SameAnswers(s, a))
               => Outcome(s) = Outcome(a)

\* the first request has been answered 200 while the second, against another
\* world, is suspended in its fan-out with results gathered
C27_Witness ==
  /\ DOMAIN parked = {"alone", "second"}
  /\ pc = "done"
  /\ response # Null
  /\ response[1].status = 200
  /\ SameAnswers(HandlerState, parked["alone"])
  /\ parked["second"].env # env
  /\ parked["second"].pc = "fanout"
  /\ parked["second"].repos # <<>>

====
